---- MODULE Spec2Model ----
(***************************************************************************)
(* Model of the Messenger auto-reply bots: the polling loop of             *)
(* MessengerAutoReplyStream (messenger_auto_reply_stream.py) and of its    *)
(* simpler variants MessengerAutoReply (V2) and SimpleMessengerBot.        *)
(*                                                                         *)
(* A text is a sequence of Unicode code points (a Python str), so that     *)
(* detect_language, strip, split, lower and the segmentation rules are     *)
(* computed the way the code computes them.                                *)
(***************************************************************************)
EXTENDS Integers, Sequences, FiniteSets, TLC

(***************************************************************************)
(* Characters and strings                                                  *)
(***************************************************************************)

\* re [\u4e00-\u9fff]
IsCJK(c) == c \in 19968..40959

\* re [a-zA-Z]
IsLatin(c) == c \in (65..90) \cup (97..122)

\* str.isspace: what strip() removes and split() splits on
IsSpace(c) ==
  c \in (9..13) \cup (28..32) \cup {133, 160, 5760} \cup (8192..8202)
        \cup {8232, 8233, 8239, 8287, 12288}

\* str.lower on one character (the characters used here are ASCII, CJK
\* ideographs and CJK punctuation; only A-Z have a lower-case form)
LowerChar(c) == IF c \in 65..90 THEN c + 32 ELSE c

Lower(t) == [i \in 1..Len(t) |-> LowerChar(t[i])]

\* kw in t (substring test)
Contains(t, kw) ==
  \E i \in 0..(Len(t) - Len(kw)) : \A j \in 1..Len(kw) : t[i + j] = kw[j]

\* t.endswith(<<c>>)
EndsWithChar(t, c) == Len(t) > 0 /\ t[Len(t)] = c

\* t[:n]
Prefix(t, n) == SubSeq(t, 1, IF Len(t) < n THEN Len(t) ELSE n)

RECURSIVE FirstNonSpace(_, _)
\* the index of the first character at or after i that is no whitespace
FirstNonSpace(t, i) ==
  IF i > Len(t) THEN i
  ELSE IF IsSpace(t[i]) THEN FirstNonSpace(t, i + 1) ELSE i

RECURSIVE LastNonSpace(_, _)
\* the index of the last character at or before i that is no whitespace
LastNonSpace(t, i) ==
  IF i < 1 THEN i
  ELSE IF IsSpace(t[i]) THEN LastNonSpace(t, i - 1) ELSE i

\* str.strip()
Strip(t) == SubSeq(t, FirstNonSpace(t, 1), LastNonSpace(t, Len(t)))

RECURSIVE SplitFrom(_, _, _, _)
SplitFrom(t, i, cur, words) ==
  IF i > Len(t)
  THEN IF cur # <<>> THEN Append(words, cur) ELSE words
  ELSE IF IsSpace(t[i])
       THEN SplitFrom(t, i + 1, <<>>,
                      IF cur # <<>> THEN Append(words, cur) ELSE words)
       ELSE SplitFrom(t, i + 1, Append(cur, t[i]), words)

\* str.split() with no argument
Split(t) == SplitFrom(t, 1, <<>>, <<>>)

RECURSIVE JoinWith(_, _)
\* sep.join(words)
JoinWith(words, sep) ==
  IF words = <<>> THEN <<>>
  ELSE IF Len(words) = 1 THEN words[1]
  ELSE words[1] \o sep \o JoinWith(Tail(words), sep)

SpaceJoin(words) == JoinWith(words, <<32>>)

CountOf(t, P(_)) == Cardinality({i \in 1..Len(t) : P(t[i])})

\* mutation of detect_language: equal counts give 'chinese'
detect_languageTieChinese(t) ==
  IF CountOf(t, IsCJK) >= CountOf(t, IsLatin) THEN "chinese" ELSE "english"

detect_language(t) ==
  LET chinese_count == CountOf(t, IsCJK)
      english_count == CountOf(t, IsLatin)
  IN IF chinese_count > english_count THEN "chinese"
     ELSE IF english_count > 0 THEN "english"
     ELSE "chinese"

(***************************************************************************)
(* Segmentation (send_text_gradually)                                      *)
(***************************************************************************)

\* the characters of the literal used by the Chinese rule: fullwidth comma,
\* ideographic full stop, fullwidth exclamation mark, fullwidth question
\* mark, ideographic comma
\* mutation of ChinesePunct: no character cuts a segment
ChinesePunctNone == {}

ChinesePunct == {65292, 12290, 65281, 65311, 12289}

\* mutation of SegCharLimit: a segment is cut at six characters
SegCharLimitSix == 5 + 1

SegCharLimit == 5

SegWordLimit == 3

RECURSIVE ChineseSegsFrom(_, _, _, _)
ChineseSegsFrom(t, i, cur, segs) ==
  IF i > Len(t)
  THEN IF cur # <<>> THEN Append(segs, cur) ELSE segs
  ELSE LET c == Append(cur, t[i])
       IN IF t[i] \in ChinesePunct \/ Len(c) >= SegCharLimit
          THEN ChineseSegsFrom(t, i + 1, <<>>, Append(segs, c))
          ELSE ChineseSegsFrom(t, i + 1, c, segs)

\* mutation of ChineseSegments: the rest after the last cut is not appended
ChineseSegmentsNoRest(t) ==
  LET segs == ChineseSegsFrom(t, 1, <<>>, <<>>)
      n == Len(segs)
  IN IF n > 0 /\ Len(segs[n]) < 5 /\ segs[n][Len(segs[n])] \notin ChinesePunct
     THEN SubSeq(segs, 1, n - 1)
     ELSE segs

ChineseSegments(t) == ChineseSegsFrom(t, 1, <<>>, <<>>)

\* word.endswith('.') or word.endswith(',')
\* mutation of WordEndsSegment: the marks that end a sentence cut a segment
WordEndsSegmentTerminal(w) ==
  EndsWithChar(w, 46) \/ EndsWithChar(w, 33) \/ EndsWithChar(w, 63)

WordEndsSegment(w) == EndsWithChar(w, 46) \/ EndsWithChar(w, 44)

RECURSIVE EnglishSegsFrom(_, _, _, _)
EnglishSegsFrom(words, i, cur, segs) ==
  IF i > Len(words)
  THEN IF cur # <<>> THEN Append(segs, SpaceJoin(cur)) ELSE segs
  ELSE LET c == Append(cur, words[i])
       IN IF Len(c) >= SegWordLimit \/ WordEndsSegment(words[i])
          THEN EnglishSegsFrom(words, i + 1, <<>>, Append(segs, SpaceJoin(c)))
          ELSE EnglishSegsFrom(words, i + 1, c, segs)

EnglishSegments(t) == EnglishSegsFrom(Split(t), 1, <<>>, <<>>)

Segments(t) ==
  IF detect_language(t) = "chinese" THEN ChineseSegments(t)
  ELSE EnglishSegments(t)

(***************************************************************************)
(* Values of the page and of the loop state                                *)
(***************************************************************************)

\* Python None, as a value comparable with every text and key (no text
\* holds a negative code point)
None == <<-1>>

\* "[IMG]"
ImgTag == <<91, 73, 77, 71, 93>>

\* img_src[:100]
IdPrefixLen == 100

\* f"[IMG]{img_src[:100]}"
ImgKey(src) == ImgTag \o Prefix(src, IdPrefixLen)

\* 't39.30808-1' and 't39.30808-6'
AvatarMarks ==
  { <<116, 51, 57, 46, 51, 48, 56, 48, 56, 45, 49>>,
    <<116, 51, 57, 46, 51, 48, 56, 48, 56, 45, 54>> }

\* width > 100 and height > 100
MinImageSide == 100

\* len(msg_text) > 500
MaxTextLen == 500

\* skip_keywords
SkipKeywords ==
  { <<99, 114, 101, 97, 116, 101, 100>>, <<114, 101, 109, 111, 118, 101, 100>>,
    <<97, 100, 100, 101, 100>>, <<108, 101, 102, 116>>,
    <<106, 111, 105, 110, 101, 100>>, <<99, 104, 97, 110, 103, 101, 100>> }

\* The fallback replies of the last-entry image path, by detect_language of
\* the entry's text: vision failed / download failed
SorryVisionZh ==
  <<25265, 27465, 65292, 26080, 27861, 35782, 21035, 22270, 29255, 20869,
    23481, 12290, 35831, 23581, 35797, 19978, 20256, 26356, 28165, 26224,
    30340, 22270, 29255, 12290>>

SorryVisionEn ==
  <<83, 111, 114, 114, 121, 44, 32, 99, 111, 117, 108, 100, 110, 39, 116, 32,
    97, 110, 97, 108, 121, 122, 101, 32, 116, 104, 101, 32, 105, 109, 97, 103,
    101, 46, 32, 80, 108, 101, 97, 115, 101, 32, 116, 114, 121, 32, 117, 112,
    108, 111, 97, 100, 105, 110, 103, 32, 97, 32, 99, 108, 101, 97, 114, 101,
    114, 32, 105, 109, 97, 103, 101, 46>>

SorryDownloadZh ==
  <<25265, 27465, 65292, 26080, 27861, 19979, 36733, 22270, 29255, 12290,
    35831, 37325, 26032, 21457, 36865, 12290>>

SorryDownloadEn ==
  <<83, 111, 114, 114, 121, 44, 32, 99, 111, 117, 108, 100, 110, 39, 116, 32,
    100, 111, 119, 110, 108, 111, 97, 100, 32, 116, 104, 101, 32, 105, 109, 97,
    103, 101, 46, 32, 80, 108, 101, 97, 115, 101, 32, 114, 101, 115, 101, 110,
    100, 32, 105, 116, 46>>

SorryVision(text) ==
  IF detect_language(text) = "chinese" THEN SorryVisionZh ELSE SorryVisionEn

SorryDownload(text) ==
  IF detect_language(text) = "chinese" THEN SorryDownloadZh ELSE SorryDownloadEn

(***************************************************************************)
(* Capacities of the two membership sets.  The code clears                 *)
(* processed_messages above 50 entries and cuts own_sent_messages to 50    *)
(* entries above 100.  The model keeps the rule and scales the three       *)
(* numbers down, so that the overflow is reached within a few cycles.      *)
(***************************************************************************)

ProcessedCap == 1

OwnCap == 4

OwnKeep == 1

\* the iterations of the main loop that the model follows
MaxChecks == 3

\* if len(self.processed_messages) > 50: self.processed_messages.clear()
LimitProcessed(S) == IF Cardinality(S) > ProcessedCap THEN {} ELSE S

\* if len(self.own_sent_messages) > 100:
\*     self.own_sent_messages = set(list(self.own_sent_messages)[-50:])
\* The order of list(set) is the set's hash order, not the order of
\* insertion: which entries are kept is any choice of that many entries.
TrimChoices(S) ==
  IF Cardinality(S) > OwnCap
  THEN {T \in SUBSET S : Cardinality(T) = OwnKeep}
  ELSE {S}

\* mutation of OwnStrings: only the full reply is recorded
OwnStringsReplyOnly(reply, segs) == {reply}

\* self.own_sent_messages.add(full_response)
\* for segment in sent_segments: self.own_sent_messages.add(segment.strip())
OwnStrings(reply, segs) == {reply} \cup {Strip(segs[i]) : i \in 1..Len(segs)}

(***************************************************************************)
(* The inputs the environment offers                                       *)
(***************************************************************************)

\* "hi"
TextHi == <<104, 105>>

\* "Alice Added Bob": the keyword is met in another case than the list's
TextSystem ==
  <<65, 108, 105, 99, 101, 32, 65, 100, 100, 101, 100, 32, 66, 111, 98>>

\* a text of 501 characters
TextLong == [i \in 1..(MaxTextLen + 1) |-> 97]

\* ni hao, fullwidth '!'
ReplyZh == <<20320, 22909, 65281>>

\* "ok. bye"
ReplyEn == <<111, 107, 46, 32, 98, 121, 101>>

\* what the user types
UserTexts == {TextHi, TextSystem, TextLong}

\* what the generation service (chat completion or vision) answers
ReplyTexts == {ReplyZh, ReplyEn}

\* a photo whose URL is longer than the prefix that identifies it, a sticker,
\* and the avatar of the conversation partner
SrcPhotoA == [i \in 1..(IdPrefixLen + 1) |-> IF i <= IdPrefixLen THEN 47 ELSE 97]

\* a second photo whose URL differs from the first only after its first 100
\* characters, and a third whose URL differs from the start
SrcPhotoB == [i \in 1..(IdPrefixLen + 1) |-> IF i <= IdPrefixLen THEN 47 ELSE 98]

SrcPhotoC == [i \in 1..(IdPrefixLen + 1) |-> 48]

SrcPhotoD == [i \in 1..(IdPrefixLen + 1) |-> 49]

SrcSticker == <<115>>

SrcAvatar == <<116, 51, 57, 46, 51, 48, 56, 48, 56, 45, 49>>

Box(w, h) == <<[width |-> w, height |-> h]>>

PhotoA == [src |-> SrcPhotoA, box |-> Box(300, 200)]

PhotoB == [src |-> SrcPhotoB, box |-> Box(300, 200)]

PhotoC == [src |-> SrcPhotoC, box |-> Box(300, 200)]

PhotoD == [src |-> SrcPhotoD, box |-> Box(300, 200)]

Sticker == [src |-> SrcSticker, box |-> Box(64, 64)]

Avatar == [src |-> SrcAvatar, box |-> Box(120, 120)]

\* one div[dir="auto"] element: its inner text, the img elements inside it,
\* and who wrote it (which the bot cannot see)
Entry(t, imgs, who) == [text |-> t, imgs |-> imgs, by |-> who]


(***************************************************************************)
(* State                                                                   *)
(***************************************************************************)

VARIABLES
  test_mode,            \* self.test_mode
  last_message_text,    \* self.last_message_text
  processed_messages,   \* self.processed_messages
  own_sent_messages,    \* self.own_sent_messages
  check_count,          \* check_count of run
  pc,                   \* where run stands
  path,                 \* which branch of the iteration called the sender
  msg_text,             \* locals of the iteration
  message_id,
  full_response,
  generated,            \* whether the generation step of this iteration gave a reply
  segments,             \* segments of send_text_gradually
  sent_n,               \* how many of them have been typed and submitted
  decision,             \* the log line of the classification of this iteration
  outcome,              \* the log line that ends this iteration
  messages,             \* the page: the last div[dir="auto"] element, if any
  all_images,           \* the page: its img[src] elements, in document order
  ever_processed,       \* history: every key ever added to processed_messages
  delivered,            \* history: every reply and segment ever recorded as sent
  guarded,              \* history: those recorded since own_sent_messages was last cut
  stream,               \* the chunks of the open completion stream and the next to read
  conversation_history, \* app.py: the module-level conversation_history
  request,              \* app.py: the request the server handled last
  response,             \* app.py: the response it gave
  messenger_client,     \* app.py: the module-level messenger_client
  handlers,             \* app.py: the request each thread of the server handles
  outbox,               \* the calls of the Graph API made so far
  rows,                 \* messenger_scraper: the div[role="row"] elements
  replier_processed,    \* messenger_scraper: self.processed_messages
  clock,                \* messenger_scraper: int(time.time() / 60)
  answered              \* history: replies sent since the last row came

\* message_count of run only numbers the log lines and is left out.

botVars ==
  <<test_mode, last_message_text, processed_messages, own_sent_messages,
    check_count>>

localVars ==
  <<path, msg_text, message_id, full_response, generated, segments, sent_n>>

logVars == <<decision, outcome>>

pageVars == <<messages, all_images>>

histVars == <<ever_processed, delivered, guarded>>

\* no stream is open.  In Spec the stream is opened, read to its end and
\* closed within one step (StreamCompletes); SpecReply follows it chunk by
\* chunk.
NoStream == [chunks |-> <<>>, next |-> 1]

apiVars == <<conversation_history, request, response>>

\* the request and the response of a server that has handled no request
NoRequest ==
  [method |-> "none", route |-> "none",
   body |-> [json |-> FALSE, fields |-> {}, message |-> <<>>],
   gen |-> "none"]

NoResponse == [status |-> 0, data |-> <<>>]

\* app.py as loaded: conversation_history = []
ApiIdle ==
  /\ conversation_history = <<>>
  /\ request = NoRequest
  /\ response = NoResponse

srvVars == <<messenger_client, handlers, outbox>>

scrVars == <<rows, replier_processed, clock, answered>>

\* the threads of the development server (app.run, threaded by default)
NumThreads == 2

Threads == 1..NumThreads

\* messenger_client = None: MESSENGER_PAGE_ACCESS_TOKEN is not set
NoClient == [configured |-> FALSE, app_secret |-> ""]

\* the handler of a thread that has taken no request
NoHandler ==
  [kind |-> "idle", at |-> "idle", message |-> <<>>, suggestion |-> <<>>,
   signed |-> FALSE, status |-> 0]

\* app.py as loaded without the variables of Messenger, no request taken
ServerIdle ==
  /\ messenger_client = NoClient
  /\ handlers = [t \in Threads |-> NoHandler]
  /\ outbox = <<>>

\* MessengerAutoReplier.__init__, on a conversation without rows
ReplierIdle ==
  /\ rows = <<>>
  /\ replier_processed = {}
  /\ clock = 0
  /\ answered = 0

vars ==
  <<botVars, pc, localVars, logVars, pageVars, histVars, stream, apiVars,
    srvVars, scrVars>>

Init ==
  /\ test_mode \in BOOLEAN
  /\ last_message_text = None
  /\ processed_messages = {}
  /\ own_sent_messages = {}
  /\ check_count = 0
  /\ pc = "poll"
  /\ path = "none"
  /\ msg_text = <<>>
  /\ message_id = <<>>
  /\ full_response = <<>>
  /\ generated = "none"
  /\ segments = <<>>
  /\ sent_n = 0
  /\ decision = "none"
  /\ outcome = "none"
  /\ messages = <<>>
  /\ all_images = <<Avatar>>
  /\ ever_processed = {}
  /\ delivered = {}
  /\ guarded = {}
  /\ stream = NoStream
  /\ ApiIdle
  /\ ServerIdle
  /\ ReplierIdle

(***************************************************************************)
(* The page: what the other side does between two polls                    *)
(***************************************************************************)

UserPostsText(t) ==
  /\ pc = "poll"
  /\ messages' = <<Entry(t, <<>>, "user")>>
  /\ UNCHANGED <<botVars, stream, apiVars, srvVars, scrVars, pc, localVars, logVars, all_images, histVars>>

\* an entry that holds an image, with or without a caption
UserPostsImage(img, t) ==
  /\ pc = "poll"
  /\ \A i \in 1..Len(all_images) : all_images[i] # img
  /\ messages' = <<Entry(t, <<img>>, "user")>>
  /\ all_images' = Append(all_images, img)
  /\ UNCHANGED <<botVars, stream, apiVars, srvVars, scrVars, pc, localVars, logVars, histVars>>

\* an image that is rendered outside every div[dir="auto"] element
ImageAppears(img) ==
  /\ pc = "poll"
  /\ \A i \in 1..Len(all_images) : all_images[i] # img
  /\ all_images' = Append(all_images, img)
  /\ UNCHANGED <<botVars, stream, apiVars, srvVars, scrVars, pc, localVars, logVars, messages, histVars>>

(***************************************************************************)
(* MessengerAutoReplyStream.run: one iteration of the main loop            *)
(***************************************************************************)

\* bounding_box() is not None and width > 100 and height > 100
IsLarge(img) ==
  /\ img.box # <<>>
  /\ img.box[1].width > MinImageSide
  /\ img.box[1].height > MinImageSide

\* the filter of the page-wide image scan
IsNewImage(img) ==
  /\ IsLarge(img)
  /\ img.src # <<>>
  /\ \A m \in AvatarMarks : ~Contains(img.src, m)
  /\ ImgKey(img.src) \notin processed_messages

\* for img in reversed(all_images): the first image that passes; 0 if none
LatestImageIndex ==
  LET new == {i \in 1..Len(all_images) : IsNewImage(all_images[i])}
  IN IF new = {} THEN 0 ELSE CHOOSE i \in new : \A j \in new : j <= i

\* message_id of the last entry
EntryKey(e) ==
  IF e.imgs # <<>> /\ e.imgs[1].src # <<>>
  THEN ImgKey(e.imgs[1].src)
  ELSE Strip(e.text)

\* mutation of IsSystemText: the text is not lower-cased
IsSystemTextCaseSensitive(t) == \E kw \in SkipKeywords : Contains(t, kw)

\* any(keyword in msg_text.lower() for keyword in skip_keywords)
IsSystemText(t) == \E kw \in SkipKeywords : Contains(Lower(t), kw)

\* mutation of IsOwnMessage: the check runs in test mode as well
IsOwnMessageAnyMode(t) == t \in own_sent_messages

\* if not self.test_mode: if msg_text in self.own_sent_messages
IsOwnMessage(t) == ~test_mode /\ t \in own_sent_messages

\* mutation of Classify: the check against last_message_text is missing
ClassifyNoUnchanged(e) ==
  LET t == Strip(e.text)
  IN IF t = <<>> /\ e.imgs = <<>> THEN "empty"
     ELSE IF Len(t) > MaxTextLen THEN "too_long"
     ELSE IF IsSystemText(t) THEN "system"
     ELSE IF EntryKey(e) \in processed_messages THEN "duplicate"
     ELSE IF IsOwnMessage(t) THEN "self_echo"
     ELSE "accepted"

\* mutation of Classify: the check against processed_messages is missing
ClassifyNoDuplicate(e) ==
  LET t == Strip(e.text)
  IN IF t = <<>> /\ e.imgs = <<>> THEN "empty"
     ELSE IF Len(t) > MaxTextLen THEN "too_long"
     ELSE IF IsSystemText(t) THEN "system"
     ELSE IF EntryKey(e) = last_message_text THEN "unchanged"
     ELSE IF IsOwnMessage(t) THEN "self_echo"
     ELSE "accepted"

\* the checks on the last entry, in the order of the code
Classify(e) ==
  LET t == Strip(e.text)
  IN IF t = <<>> /\ e.imgs = <<>> THEN "empty"
     ELSE IF Len(t) > MaxTextLen THEN "too_long"
     ELSE IF IsSystemText(t) THEN "system"
     ELSE IF EntryKey(e) \in processed_messages THEN "duplicate"
     ELSE IF EntryKey(e) = last_message_text THEN "unchanged"
     ELSE IF IsOwnMessage(t) THEN "self_echo"
     ELSE "accepted"

\* while True: try: check_count += 1
NextCheck ==
  /\ pc = "poll"
  /\ check_count < MaxChecks
  /\ check_count' = check_count + 1

\* logger line, then time.sleep(3) and continue
SkipTo(d, o) ==
  /\ decision' = d
  /\ outcome' = o
  /\ pc' = "sleep"

\* mutation of PollRaises: a failure in the first iteration ends the loop
PollRaisesFirstStops ==
  /\ NextCheck
  /\ decision' = "none"
  /\ outcome' = "error"
  /\ pc' = IF check_count = 0 THEN "stopped" ELSE "sleep"
  /\ UNCHANGED <<test_mode, stream, apiVars, srvVars, scrVars, last_message_text, processed_messages,
                 own_sent_messages, localVars, pageVars, histVars>>

\* page.query_selector_all raises: caught by the handler of the loop
PollRaises ==
  /\ NextCheck
  /\ SkipTo("none", "error")
  /\ UNCHANGED <<test_mode, stream, apiVars, srvVars, scrVars, last_message_text, processed_messages,
                 own_sent_messages, localVars, pageVars, histVars>>

\* mutation of PollImage: the image is not marked before it is handled
PollImageUnmarked ==
  /\ NextCheck
  /\ LatestImageIndex > 0
  /\ message_id' = ImgKey(all_images[LatestImageIndex].src)
  /\ msg_text' = <<>>
  /\ path' = "scan"
  /\ decision' = "new_image"
  /\ pc' = "scan_download"
  /\ UNCHANGED <<test_mode, stream, apiVars, srvVars, scrVars, last_message_text,
                 processed_messages, own_sent_messages, full_response,
                 generated, segments, sent_n, outcome, pageVars, histVars>>

\* a new large image is on the page: it is marked before it is handled
PollImage ==
  /\ NextCheck
  /\ LatestImageIndex > 0
  /\ LET id == ImgKey(all_images[LatestImageIndex].src)
     IN /\ message_id' = id
        /\ processed_messages' = processed_messages \cup {id}
        /\ ever_processed' = ever_processed \cup {id}
        /\ last_message_text' = id
  /\ msg_text' = <<>>
  /\ path' = "scan"
  /\ decision' = "new_image"
  /\ pc' = "scan_download"
  /\ UNCHANGED <<test_mode, stream, apiVars, srvVars, scrVars, own_sent_messages, full_response, generated, segments,
                 sent_n,
                 outcome, pageVars, delivered, guarded>>

\* no new image and no div[dir="auto"] element at all
PollNothing ==
  /\ NextCheck
  /\ LatestImageIndex = 0
  /\ messages = <<>>
  /\ SkipTo("no_messages", "skipped")
  /\ UNCHANGED <<test_mode, stream, apiVars, srvVars, scrVars, last_message_text, processed_messages,
                 own_sent_messages, localVars, pageVars, histVars>>

\* mutation of PollSkip: the key of the skipped entry is recorded
PollSkipRecords ==
  /\ NextCheck
  /\ LatestImageIndex = 0
  /\ messages # <<>>
  /\ Classify(messages[1]) \in
       {"empty", "too_long", "system", "duplicate", "unchanged"}
  /\ SkipTo(Classify(messages[1]), "skipped")
  /\ msg_text' = Strip(messages[1].text)
  /\ processed_messages' = processed_messages \cup {EntryKey(messages[1])}
  /\ UNCHANGED <<test_mode, stream, apiVars, srvVars, scrVars, last_message_text,
                 own_sent_messages, path, message_id, full_response, generated,
                 segments, sent_n, pageVars, histVars>>

\* the last entry is skipped: empty, too long, system, already processed, or
\* the same as the last one
PollSkip ==
  /\ NextCheck
  /\ LatestImageIndex = 0
  /\ messages # <<>>
  /\ Classify(messages[1]) \in
       {"empty", "too_long", "system", "duplicate", "unchanged"}
  /\ SkipTo(Classify(messages[1]), "skipped")
  /\ msg_text' = Strip(messages[1].text)
  /\ UNCHANGED <<test_mode, stream, apiVars, srvVars, scrVars, last_message_text, processed_messages,
                 own_sent_messages, path, message_id, full_response, generated,
                 segments, sent_n, pageVars, histVars>>

\* mutation of PollOwn: the text is not added to processed_messages
PollOwnNoAdd ==
  /\ NextCheck
  /\ LatestImageIndex = 0
  /\ messages # <<>>
  /\ Classify(messages[1]) = "self_echo"
  /\ SkipTo("self_echo", "skipped")
  /\ msg_text' = Strip(messages[1].text)
  /\ message_id' = EntryKey(messages[1])
  /\ last_message_text' = Strip(messages[1].text)
  /\ UNCHANGED <<test_mode, stream, apiVars, srvVars, scrVars, processed_messages,
                 own_sent_messages, path, full_response, generated, segments,
                 sent_n, pageVars, histVars>>

\* the last entry is the bot's own message
PollOwn ==
  /\ NextCheck
  /\ LatestImageIndex = 0
  /\ messages # <<>>
  /\ Classify(messages[1]) = "self_echo"
  /\ SkipTo("self_echo", "skipped")
  /\ msg_text' = Strip(messages[1].text)
  /\ message_id' = EntryKey(messages[1])
  /\ last_message_text' = Strip(messages[1].text)
  /\ processed_messages' = processed_messages \cup {Strip(messages[1].text)}
  /\ ever_processed' = ever_processed \cup {Strip(messages[1].text)}
  /\ UNCHANGED <<test_mode, stream, apiVars, srvVars, scrVars, own_sent_messages, path, full_response, generated,
                 segments, sent_n, pageVars, delivered, guarded>>

\* mutation of PollAccept: every accepted entry goes to the text branch
PollAcceptTextOnly ==
  /\ NextCheck
  /\ LatestImageIndex = 0
  /\ messages # <<>>
  /\ Classify(messages[1]) = "accepted"
  /\ decision' = "accepted"
  /\ msg_text' = Strip(messages[1].text)
  /\ message_id' = EntryKey(messages[1])
  /\ path' = "text"
  /\ pc' = "generate"
  /\ UNCHANGED <<test_mode, stream, apiVars, srvVars, scrVars, last_message_text, processed_messages,
                 own_sent_messages, full_response, generated, segments,
                 sent_n, outcome,
                 pageVars, histVars>>

\* the last entry is a new message
PollAccept ==
  /\ NextCheck
  /\ LatestImageIndex = 0
  /\ messages # <<>>
  /\ Classify(messages[1]) = "accepted"
  /\ decision' = "accepted"
  /\ msg_text' = Strip(messages[1].text)
  /\ message_id' = EntryKey(messages[1])
  /\ IF messages[1].imgs # <<>>
     THEN path' = "image" /\ pc' = "image_download"
     ELSE path' = "text" /\ pc' = "generate"
  /\ UNCHANGED <<test_mode, stream, apiVars, srvVars, scrVars, last_message_text, processed_messages,
                 own_sent_messages, full_response, generated, segments,
                 sent_n, outcome,
                 pageVars, histVars>>

\* the end of an iteration: its last log line, then time.sleep
EndIteration(o) ==
  /\ outcome' = o
  /\ pc' = "sleep"

\* time.sleep is over: the next iteration starts with fresh locals
Sleep ==
  /\ pc = "sleep"
  /\ pc' = "poll"
  /\ path' = "none"
  /\ msg_text' = <<>>
  /\ message_id' = <<>>
  /\ full_response' = <<>>
  /\ generated' = "none"
  /\ segments' = <<>>
  /\ sent_n' = 0
  /\ decision' = "none"
  /\ outcome' = "none"
  /\ UNCHANGED <<botVars, stream, apiVars, srvVars, scrVars, pageVars, histVars>>

\* the locals that a generation step leaves alone
keptLocals == <<path, msg_text, message_id, segments, sent_n>>

\* mutation of GenerateFails: a fixed apology is sent when the call fails, as
\* the last-entry image branch does
GenerateFailsApology ==
  /\ pc = "generate"
  /\ generated' = "no"
  /\ full_response' = SorryDownloadEn
  /\ pc' = "send_begin"
  /\ UNCHANGED <<botVars, stream, apiVars, srvVars, scrVars, keptLocals, logVars, pageVars, histVars>>

\* get_ai_reply_stream returns None (the API call failed)
GenerateFails ==
  /\ pc = "generate"
  /\ generated' = "no"
  /\ EndIteration("no_reply")
  /\ UNCHANGED <<botVars, stream, apiVars, srvVars, scrVars, keptLocals, full_response, decision, pageVars,
                 histVars>>

\* the stream breaks while it is consumed: the handler of the loop catches it
StreamRaises ==
  /\ pc = "generate"
  /\ generated' = "no"
  /\ EndIteration("error")
  /\ UNCHANGED <<botVars, stream, apiVars, srvVars, scrVars, keptLocals, full_response, decision, pageVars,
                 histVars>>

\* the stream ends without any content: if full_response is false
StreamEmpty ==
  /\ pc = "generate"
  /\ generated' = "no"
  /\ EndIteration("empty_reply")
  /\ UNCHANGED <<botVars, stream, apiVars, srvVars, scrVars, keptLocals, full_response, decision, pageVars,
                 histVars>>

\* the stream is consumed to its end and gives the reply r
StreamCompletes(r) ==
  /\ pc = "generate"
  /\ r # <<>>
  /\ full_response' = r
  /\ generated' = "yes"
  /\ pc' = "send_begin"
  /\ UNCHANGED <<botVars, stream, apiVars, srvVars, scrVars, keptLocals, logVars, pageVars, histVars>>

\* the limits at the end of the page-wide image branch
ScanLimits ==
  /\ processed_messages' = LimitProcessed(processed_messages)
  /\ own_sent_messages' \in TrimChoices(own_sent_messages)
  /\ guarded' = IF own_sent_messages' = own_sent_messages THEN guarded ELSE {}

\* page-wide image: download_image returns None
ScanDownloadFails ==
  /\ pc = "scan_download"
  /\ generated' = "no"
  /\ ScanLimits
  /\ EndIteration("no_reply")
  /\ UNCHANGED <<test_mode, stream, apiVars, srvVars, scrVars, last_message_text, check_count, keptLocals,
                 full_response, decision, pageVars, ever_processed, delivered>>

ScanDownloadOk ==
  /\ pc = "scan_download"
  /\ pc' = "scan_vision"
  /\ UNCHANGED <<botVars, stream, apiVars, srvVars, scrVars, localVars, logVars, pageVars, histVars>>

\* page-wide image: solve_image_problem returns None
ScanVisionFails ==
  /\ pc = "scan_vision"
  /\ generated' = "no"
  /\ ScanLimits
  /\ EndIteration("no_reply")
  /\ UNCHANGED <<test_mode, stream, apiVars, srvVars, scrVars, last_message_text, check_count, keptLocals,
                 full_response, decision, pageVars, ever_processed, delivered>>

ScanVisionOk(r) ==
  /\ pc = "scan_vision"
  /\ r # <<>>
  /\ full_response' = r
  /\ generated' = "yes"
  /\ pc' = "send_begin"
  /\ UNCHANGED <<botVars, stream, apiVars, srvVars, scrVars, keptLocals, logVars, pageVars, histVars>>

\* image in the last entry: download_image returns None, an apology is sent
ImageDownloadFails ==
  /\ pc = "image_download"
  /\ full_response' = SorryDownload(msg_text)
  /\ generated' = "no"
  /\ pc' = "send_begin"
  /\ UNCHANGED <<botVars, stream, apiVars, srvVars, scrVars, keptLocals, logVars, pageVars, histVars>>

ImageDownloadOk ==
  /\ pc = "image_download"
  /\ pc' = "image_vision"
  /\ UNCHANGED <<botVars, stream, apiVars, srvVars, scrVars, localVars, logVars, pageVars, histVars>>

\* image in the last entry: solve_image_problem returns None, an apology is sent
ImageVisionFails ==
  /\ pc = "image_vision"
  /\ full_response' = SorryVision(msg_text)
  /\ generated' = "no"
  /\ pc' = "send_begin"
  /\ UNCHANGED <<botVars, stream, apiVars, srvVars, scrVars, keptLocals, logVars, pageVars, histVars>>

ImageVisionOk(r) ==
  /\ pc = "image_vision"
  /\ r # <<>>
  /\ full_response' = r
  /\ generated' = "yes"
  /\ pc' = "send_begin"
  /\ UNCHANGED <<botVars, stream, apiVars, srvVars, scrVars, keptLocals, logVars, pageVars, histVars>>

(***************************************************************************)
(* send_text_gradually                                                     *)
(***************************************************************************)

\* the input box is not found: returns None, the caller logs the failure
SendNoInputBox ==
  /\ pc = "send_begin"
  /\ IF path = "scan"
     THEN ScanLimits
     ELSE UNCHANGED <<processed_messages, own_sent_messages, guarded>>
  /\ EndIteration("not_sent")
  /\ UNCHANGED <<test_mode, stream, apiVars, srvVars, scrVars, last_message_text, check_count, localVars, decision,
                 pageVars,
                 ever_processed, delivered>>

\* the input box is found and focused, the text is cut into segments
SendBegin ==
  /\ pc = "send_begin"
  /\ segments' = Segments(full_response)
  /\ sent_n' = 0
  /\ pc' = "sending"
  /\ UNCHANGED <<botVars, stream, apiVars, srvVars, scrVars, path, msg_text, message_id, full_response,
                 generated, logVars, pageVars, histVars>>

\* mutation of SendSegment: the segments are submitted from the last to the
\* first
SendSegmentLastFirst ==
  /\ pc = "sending"
  /\ sent_n < Len(segments)
  /\ messages' = <<Entry(segments[Len(segments) - sent_n], <<>>, "bot")>>
  /\ sent_n' = sent_n + 1
  /\ UNCHANGED <<botVars, stream, apiVars, srvVars, scrVars, pc, path, msg_text, message_id, full_response,
                 generated, segments, logVars, all_images, histVars>>

\* clear the input box, type the next segment, press Enter
SendSegment ==
  /\ pc = "sending"
  /\ sent_n < Len(segments)
  /\ messages' = <<Entry(segments[sent_n + 1], <<>>, "bot")>>
  /\ sent_n' = sent_n + 1
  /\ UNCHANGED <<botVars, stream, apiVars, srvVars, scrVars, pc, path, msg_text, message_id, full_response,
                 generated, segments, logVars, all_images, histVars>>

\* mutation of SendRaises: the error leaves the loop
SendRaisesUncaught ==
  /\ pc = "sending"
  /\ sent_n < Len(segments)
  /\ outcome' = "error"
  /\ pc' = "crashed"
  /\ UNCHANGED <<botVars, stream, apiVars, srvVars, scrVars, localVars, decision, pageVars, histVars>>

\* a page call raises before the next segment is submitted.  In the
\* page-wide image branch the inner handler catches it and the limits run;
\* elsewhere the handler of the loop catches it.
SendRaises ==
  /\ pc = "sending"
  /\ sent_n < Len(segments)
  /\ IF path = "scan"
     THEN ScanLimits
     ELSE UNCHANGED <<processed_messages, own_sent_messages, guarded>>
  /\ EndIteration("error")
  /\ UNCHANGED <<test_mode, stream, apiVars, srvVars, scrVars, last_message_text, check_count, localVars, decision,
                 pageVars,
                 ever_processed, delivered>>

(***************************************************************************)
(* The bookkeeping after send_text_gradually has returned                  *)
(***************************************************************************)

\* history: the reply of this iteration and what the feed shows of each
\* segment that was submitted
SentStrings ==
  {full_response} \cup {Strip(segments[i]) : i \in 1..sent_n}

\* the strings recorded into own_sent_messages, then the cut
RecordOwn ==
  LET added == own_sent_messages \cup OwnStrings(full_response, segments)
  IN /\ own_sent_messages' \in TrimChoices(added)
     /\ delivered' = delivered \cup SentStrings
     /\ guarded' = IF own_sent_messages' = added
                   THEN guarded \cup SentStrings
                   ELSE {}

\* mutation of RecordKey: last_message_text is not updated
RecordKeyNoLast ==
  /\ processed_messages' = LimitProcessed(processed_messages \cup {message_id})
  /\ ever_processed' = ever_processed \cup {message_id}
  /\ UNCHANGED last_message_text

\* the key recorded into processed_messages, then the clear
RecordKey ==
  /\ processed_messages' = LimitProcessed(processed_messages \cup {message_id})
  /\ ever_processed' = ever_processed \cup {message_id}
  /\ last_message_text' = message_id

\* text branch and last-entry image branch: if sent_segments: record the
\* key, the reply and its segments, then apply the limits
RecordReply ==
  /\ pc = "sending"
  /\ path \in {"text", "image"}
  /\ sent_n = Len(segments)
  /\ IF segments # <<>>
     THEN /\ RecordKey
          /\ RecordOwn
          /\ EndIteration("recorded")
     ELSE /\ UNCHANGED <<processed_messages, last_message_text,
                         own_sent_messages, histVars>>
          /\ EndIteration("not_sent")
  /\ UNCHANGED <<test_mode, stream, apiVars, srvVars, scrVars, check_count, localVars, decision, pageVars>>

\* page-wide image branch: if sent_segments: record the reply and its
\* segments; the limits run in every case
RecordScan ==
  /\ pc = "sending"
  /\ path = "scan"
  /\ sent_n = Len(segments)
  /\ processed_messages' = LimitProcessed(processed_messages)
  /\ IF segments # <<>>
     THEN /\ RecordOwn
          /\ EndIteration("recorded")
     ELSE /\ own_sent_messages' \in TrimChoices(own_sent_messages)
          /\ guarded' = IF own_sent_messages' = own_sent_messages
                        THEN guarded ELSE {}
          /\ UNCHANGED delivered
          /\ EndIteration("not_sent")
  /\ UNCHANGED <<test_mode, stream, apiVars, srvVars, scrVars, last_message_text, check_count, localVars, decision,
                 pageVars,
                 ever_processed>>

(***************************************************************************)
(* The specification of MessengerAutoReplyStream                           *)
(***************************************************************************)

Environment ==
  \/ \E t \in UserTexts : UserPostsText(t)
  \/ UserPostsImage(Sticker, <<>>)
  \/ ImageAppears(PhotoA)

Poll ==
  \/ PollRaises
  \/ PollImage
  \/ PollNothing
  \/ PollSkip
  \/ PollOwn
  \/ PollAccept

Generate ==
  \/ GenerateFails
  \/ StreamRaises
  \/ StreamEmpty
  \/ \E r \in ReplyTexts : StreamCompletes(r)

ScanImage ==
  \/ ScanDownloadFails
  \/ ScanDownloadOk
  \/ ScanVisionFails
  \/ \E r \in ReplyTexts : ScanVisionOk(r)

EntryImage ==
  \/ ImageDownloadFails
  \/ ImageDownloadOk
  \/ ImageVisionFails
  \/ \E r \in ReplyTexts : ImageVisionOk(r)

Send ==
  \/ SendNoInputBox
  \/ SendBegin
  \/ SendSegment
  \/ SendRaises

Record ==
  \/ RecordReply
  \/ RecordScan

Next ==
  \/ Environment
  \/ Poll
  \/ Generate
  \/ ScanImage
  \/ EntryImage
  \/ Send
  \/ Record
  \/ Sleep

Spec == Init /\ [][Next]_vars

(***************************************************************************)
(* MessengerAutoReply (messenger_auto_reply_v2.py): the same loop without  *)
(* images, segments and own_sent_messages.  It uses last_message_text,     *)
(* processed_messages, msg_text and the page; full_response stands for its *)
(* local ai_reply.                                                         *)
(***************************************************************************)

\* the code clears processed_messages above 100 entries; scaled down
V2ProcessedCap == 2

v2Unused ==
  <<test_mode, stream, apiVars, srvVars, scrVars, own_sent_messages, check_count, path, message_id,
    generated,
    segments, sent_n, all_images, histVars>>

InitV2 ==
  /\ Init
  /\ test_mode = FALSE

\* the filters and the check for a new message, in the order of the code
V2Classify(e) ==
  LET t == Strip(e.text)
  IN IF t = <<>> \/ Len(t) > MaxTextLen THEN "invalid"
     ELSE IF IsSystemText(t) THEN "system"
     ELSE IF t # last_message_text /\ t \notin processed_messages
          THEN "accepted"
     ELSE "old"

\* no div[dir="auto"] element, or the last one is filtered or not new
V2PollSkip ==
  /\ pc = "poll"
  /\ \/ messages = <<>> /\ decision' = "no_messages"
     \/ /\ messages # <<>>
        /\ V2Classify(messages[1]) # "accepted"
        /\ decision' = V2Classify(messages[1])
  /\ outcome' = "skipped"
  /\ pc' = "sleep"
  /\ UNCHANGED <<last_message_text, processed_messages, msg_text,
                 full_response, messages, v2Unused>>

\* the last entry is a new message
V2PollAccept ==
  /\ pc = "poll"
  /\ messages # <<>>
  /\ V2Classify(messages[1]) = "accepted"
  /\ msg_text' = Strip(messages[1].text)
  /\ decision' = "accepted"
  /\ pc' = "v2_generate"
  /\ UNCHANGED <<last_message_text, processed_messages, full_response, outcome,
                 messages, v2Unused>>

\* get_ai_reply returns None
V2GenerateFails ==
  /\ pc = "v2_generate"
  /\ outcome' = "no_reply"
  /\ pc' = "sleep"
  /\ UNCHANGED <<last_message_text, processed_messages, msg_text,
                 full_response, decision, messages, v2Unused>>

\* get_ai_reply returns the suggestion r
V2Generate(r) ==
  /\ pc = "v2_generate"
  /\ r # <<>>
  /\ full_response' = r
  /\ pc' = "v2_send"
  /\ UNCHANGED <<last_message_text, processed_messages, msg_text, logVars,
                 messages, v2Unused>>

\* the input box is not found
V2NoInputBox ==
  /\ pc = "v2_send"
  /\ outcome' = "not_sent"
  /\ pc' = "sleep"
  /\ UNCHANGED <<last_message_text, processed_messages, msg_text,
                 full_response, decision, messages, v2Unused>>

\* click or fill raises: the handler of the loop catches it
V2SendRaises ==
  /\ pc = "v2_send"
  /\ outcome' = "error"
  /\ pc' = "sleep"
  /\ UNCHANGED <<last_message_text, processed_messages, msg_text,
                 full_response, decision, messages, v2Unused>>

\* the reply is filled in and submitted, then the message is recorded
V2Send ==
  /\ pc = "v2_send"
  /\ messages' = <<Entry(full_response, <<>>, "bot")>>
  /\ LET added == processed_messages \cup {msg_text}
     IN processed_messages' =
          IF Cardinality(added) > V2ProcessedCap THEN {} ELSE added
  /\ last_message_text' = msg_text
  /\ outcome' = "recorded"
  /\ pc' = "sleep"
  /\ UNCHANGED <<msg_text, full_response, decision, v2Unused>>

NextV2 ==
  \/ \E t \in UserTexts : UserPostsText(t)
  \/ V2PollSkip
  \/ V2PollAccept
  \/ V2GenerateFails
  \/ \E r \in ReplyTexts : V2Generate(r)
  \/ V2NoInputBox
  \/ V2SendRaises
  \/ V2Send
  \/ Sleep

SpecV2 == InitV2 /\ [][NextV2]_vars

(***************************************************************************)
(* The reply to one accepted text entry, followed chunk by chunk: the      *)
(* stream loop of run (lines 580-597), send_text_gradually, the recording  *)
(* step, and the stop signal.                                              *)
(***************************************************************************)

\* the longest reply that is built from ReplyAlphabet
MaxReplyLen == 5

\* U+4F60, fullwidth '!', 'a', space
ReplyAlphabet == {20320, 65281, 97, 32}

\* ni hao! zui jin zen me yang? (nine characters, fullwidth '!' and '?')
ReplyScenario ==
  <<20320, 22909, 65281, 26368, 36817, 24590, 20040, 26679, 65311>>

\* "a", newline, "b"
ReplyTwoLines == <<97, 10, 98>>

\* "hi! so? ok. a, b c d e"
ReplyMarks ==
  <<104, 105, 33, 32, 115, 111, 63, 32, 111, 107, 46, 32, 97, 44, 32, 98, 32,
    99, 32, 100, 32, 101>>

StreamedReplies ==
  UNION {[1..k -> ReplyAlphabet] : k \in 0..MaxReplyLen}
    \cup {ReplyScenario, ReplyEn, ReplyTwoLines, ReplyMarks}

\* chunk.choices[0].delta.content of each chunk: here one character each
CharChunks(t) == [i \in 1..Len(t) |-> <<t[i]>>]

\* stream = self.get_ai_reply_stream(msg_text) has returned a stream for the
\* accepted entry "hi"; full_response = ""
InitReply ==
  /\ test_mode = FALSE
  /\ last_message_text = None
  /\ processed_messages = {}
  /\ own_sent_messages = {}
  /\ check_count = 1
  /\ pc = "generate"
  /\ path = "text"
  /\ msg_text = TextHi
  /\ message_id = TextHi
  /\ full_response = <<>>
  /\ generated = "none"
  /\ segments = <<>>
  /\ sent_n = 0
  /\ decision = "accepted"
  /\ outcome = "none"
  /\ messages = <<Entry(TextHi, <<>>, "user")>>
  /\ all_images = <<Avatar>>
  /\ ever_processed = {}
  /\ delivered = {}
  /\ guarded = {}
  /\ stream \in {[chunks |-> CharChunks(t), next |-> 1] : t \in StreamedReplies}
  /\ ApiIdle
  /\ ServerIdle
  /\ ReplierIdle

StreamOpen == stream.next <= Len(stream.chunks)

\* mutation of StreamChunk: each chunk is typed and submitted as it arrives
StreamChunkSent ==
  /\ pc = "generate"
  /\ StreamOpen
  /\ full_response' = full_response \o stream.chunks[stream.next]
  /\ stream' = [stream EXCEPT !.next = @ + 1]
  /\ messages' = <<Entry(stream.chunks[stream.next], <<>>, "bot")>>
  /\ sent_n' = sent_n + 1
  /\ UNCHANGED <<botVars, apiVars, srvVars, scrVars, pc, path, msg_text, message_id, generated,
                 segments, logVars, all_images, histVars>>

\* mutation of StreamChunk: the first chunk is typed and submitted at once
StreamChunkFirstSent ==
  /\ pc = "generate"
  /\ StreamOpen
  /\ full_response' = full_response \o stream.chunks[stream.next]
  /\ stream' = [stream EXCEPT !.next = @ + 1]
  /\ IF stream.next = 1
     THEN /\ messages' = <<Entry(stream.chunks[1], <<>>, "bot")>>
          /\ sent_n' = 1
     ELSE UNCHANGED <<messages, sent_n>>
  /\ UNCHANGED <<botVars, apiVars, srvVars, scrVars, pc, path, msg_text, message_id, generated,
                 segments, logVars, all_images, histVars>>

\* for chunk in stream: full_response += content; print(content)
StreamChunk ==
  /\ pc = "generate"
  /\ StreamOpen
  /\ full_response' = full_response \o stream.chunks[stream.next]
  /\ stream' = [stream EXCEPT !.next = @ + 1]
  /\ UNCHANGED <<botVars, apiVars, srvVars, scrVars, pc, keptLocals, generated, logVars,
                 pageVars, histVars>>

\* reading the next chunk raises: the handler of the loop catches it
StreamBreaks ==
  /\ pc = "generate"
  /\ StreamOpen
  /\ generated' = "no"
  /\ EndIteration("error")
  /\ UNCHANGED <<botVars, stream, apiVars, srvVars, scrVars, keptLocals, full_response, decision,
                 pageVars, histVars>>

\* the stream is exhausted: if full_response: send_text_gradually
StreamEnds ==
  /\ pc = "generate"
  /\ ~StreamOpen
  /\ IF full_response # <<>>
     THEN generated' = "yes" /\ pc' = "send_begin" /\ UNCHANGED outcome
     ELSE generated' = "no" /\ EndIteration("empty_reply")
  /\ UNCHANGED <<botVars, stream, apiVars, srvVars, scrVars, keptLocals, full_response, decision,
                 pageVars, histVars>>

\* Ctrl-C: KeyboardInterrupt is raised in whatever statement is running
\* (the time.sleep calls of the delivery among them); except
\* KeyboardInterrupt: break
KeyboardInterrupt ==
  /\ pc \in {"generate", "send_begin", "sending", "sleep"}
  /\ pc' = "stopped"
  /\ UNCHANGED <<botVars, stream, apiVars, srvVars, scrVars, localVars, logVars, pageVars, histVars>>

NextReply ==
  \/ StreamChunk
  \/ StreamBreaks
  \/ StreamEnds
  \/ SendNoInputBox
  \/ SendBegin
  \/ SendSegment
  \/ SendRaises
  \/ RecordReply
  \/ KeyboardInterrupt

SpecReply == InitReply /\ [][NextReply]_vars

(***************************************************************************)
(* The page-wide image scan on a page that shows two images: lines 374-460 *)
(* up to the failure of the download or of the analysis.                   *)
(***************************************************************************)

PageImages == {PhotoA, PhotoB, PhotoC, Sticker}

InitImages ==
  /\ Init
  /\ test_mode = FALSE

\* the page is loaded with two different images after the avatar
PageLoads(a, b) ==
  /\ pc = "poll"
  /\ check_count = 0
  /\ all_images = <<Avatar>>
  /\ a # b
  /\ all_images' = <<Avatar, a, b>>
  /\ UNCHANGED <<botVars, stream, apiVars, srvVars, scrVars, pc, localVars, logVars, messages, histVars>>

NextImages ==
  \/ \E a, b \in PageImages : PageLoads(a, b)
  \/ PollRaises
  \/ PollImage
  \/ PollNothing
  \/ ScanDownloadFails
  \/ ScanDownloadOk
  \/ ScanVisionFails
  \/ Sleep

SpecImages == InitImages /\ [][NextImages]_vars

(***************************************************************************)
(* The iterations of the main loop on a page whose last entry is given:    *)
(* any text with or without an image, met by a bot that has or has not     *)
(* recorded a key and a reply before.                                      *)
(***************************************************************************)

\* the inner text of the last entry: none, a greeting, a system line, a
\* long text, and the text of a reply of the bot
EntryTexts == {<<>>, TextHi, TextSystem, TextLong, ReplyZh}

\* the img elements inside the last entry: none, a small one, a large one
EntryImages == {<<>>, <<Sticker>>, <<PhotoA>>}

InitEntry ==
  /\ test_mode \in BOOLEAN
  /\ last_message_text \in {None, ImgKey(SrcSticker)}
  /\ processed_messages \in {{}, {ImgKey(SrcSticker)}}
  /\ own_sent_messages \in {{}, {ReplyZh}}
  /\ check_count = 0
  /\ pc = "poll"
  /\ path = "none"
  /\ msg_text = <<>>
  /\ message_id = <<>>
  /\ full_response = <<>>
  /\ generated = "none"
  /\ segments = <<>>
  /\ sent_n = 0
  /\ decision = "none"
  /\ outcome = "none"
  /\ messages \in {<<>>} \cup
       {<<Entry(t, imgs, "user")>> : t \in EntryTexts, imgs \in EntryImages}
  /\ all_images =
       <<Avatar>> \o (IF messages = <<>> THEN <<>> ELSE messages[1].imgs)
  /\ ever_processed = processed_messages
  /\ delivered = own_sent_messages
  /\ guarded = own_sent_messages
  /\ stream = NoStream
  /\ ApiIdle
  /\ ServerIdle
  /\ ReplierIdle

NextEntry ==
  \/ Poll
  \/ Generate
  \/ ScanImage
  \/ EntryImage
  \/ Send
  \/ Record
  \/ Sleep

SpecEntry == InitEntry /\ [][NextEntry]_vars

(***************************************************************************)
(* app.py: the conversation endpoints of the Flask server.                 *)
(*   POST   /api/conversation-suggest     conversation_suggest             *)
(*   GET    /api/conversation-history     get_conversation_history         *)
(*   DELETE /api/conversation-history     clear_conversation_history       *)
(* The requests are handled one at a time.                                 *)
(***************************************************************************)

\* conversation_history[-20:]
HistoryWindow == 20

\* the longest history after which a request is still posted
MaxHistory == 22

MaxShortHistory == 4

\* the most calls of the Graph API that are followed
MaxOutbox == 4

\* "hi" and two CJK characters (ce shi, 'test')
MsgHi == <<104, 105>>

MsgTest == <<27979, 35797>>

\* "ok"
SuggText == <<111, 107>>

\* a body that is no JSON (or none at all), the objects {} and
\* {"message": ""}, and two requests with a message
NoJsonBody == [json |-> FALSE, fields |-> {}, message |-> <<>>]

MessageBody(t) == [json |-> TRUE, fields |-> {"message"}, message |-> t]

Bodies ==
  {NoJsonBody, [json |-> TRUE, fields |-> {}, message |-> <<>>]}
    \cup {MessageBody(t) : t \in {<<>>, MsgHi, MsgTest}}

\* data.get('message', '')
MessageOf(b) == IF "message" \in b.fields THEN b.message ELSE <<>>

\* if not data: ... if not message:
BodyRejected(b) == ~b.json \/ b.fields = {} \/ MessageOf(b) = <<>>

\* the bot's variables, which the server does not touch
botAll ==
  <<botVars, pc, localVars, logVars, pageVars, histVars, stream, srvVars,
    scrVars>>

Suggest(b, g) ==
  [method |-> "POST", route |-> "conversation-suggest", body |-> b, gen |-> g]

UserEntry(t) == [role |-> "user", content |-> t]

AssistantEntry(t) == [role |-> "assistant", content |-> t]

\* conversation_suggest with a body that is rejected.  request.get_json()
\* on a body that is no JSON returns None in some releases of Flask (400)
\* and raises in others; what it raises is caught by except Exception (500).
SuggestRejected(b) ==
  /\ BodyRejected(b)
  /\ request' = Suggest(b, "none")
  /\ \E st \in (IF b.json THEN {400} ELSE {400, 500}) :
       response' = [status |-> st, data |-> <<>>]
  /\ UNCHANGED <<conversation_history, botAll>>

\* generate_suggestion raises in the call of the service or in json.loads
SuggestRaises(b) ==
  /\ ~BodyRejected(b)
  /\ request' = Suggest(b, "error")
  /\ response' = [status |-> 500, data |-> <<>>]
  /\ UNCHANGED <<conversation_history, botAll>>

\* generate_suggestion returns: the service answered an object whose
\* 'suggestion' is the text t
SuggestOk(b, t, cap) ==
  /\ ~BodyRejected(b)
  /\ Len(conversation_history) < cap
  /\ request' = Suggest(b, "text")
  /\ conversation_history' =
       conversation_history \o <<UserEntry(MessageOf(b)), AssistantEntry(t)>>
  /\ response' = [status |-> 200, data |-> <<[role |-> "suggestion", content |-> t]>>]
  /\ UNCHANGED botAll

\* the service answered an object whose 'suggestion' is null: both entries
\* are appended, then result.get('suggestion', '')[:100] in the log line
\* raises TypeError, which generate_suggestion raises again
SuggestLogRaises(b, cap) ==
  /\ ~BodyRejected(b)
  /\ Len(conversation_history) < cap
  /\ request' = Suggest(b, "null")
  /\ conversation_history' =
       conversation_history \o <<UserEntry(MessageOf(b)), AssistantEntry(None)>>
  /\ response' = [status |-> 500, data |-> <<>>]
  /\ UNCHANGED botAll

\* t[-n:]
LastN(t, n) == IF Len(t) <= n THEN t ELSE SubSeq(t, Len(t) - n + 1, Len(t))

HistoryRequest(m) ==
  [method |-> m, route |-> "conversation-history", body |-> NoJsonBody,
   gen |-> "none"]

\* mutation of get_conversation_history: the whole history is returned
get_conversation_historyAll ==
  /\ request' = HistoryRequest("GET")
  /\ response' = [status |-> 200, data |-> conversation_history]
  /\ UNCHANGED <<conversation_history, botAll>>

get_conversation_history ==
  /\ request' = HistoryRequest("GET")
  /\ response' =
       [status |-> 200, data |-> LastN(conversation_history, HistoryWindow)]
  /\ UNCHANGED <<conversation_history, botAll>>

clear_conversation_history ==
  /\ request' = HistoryRequest("DELETE")
  /\ conversation_history' = <<>>
  /\ response' = [status |-> 200, data |-> <<>>]
  /\ UNCHANGED botAll

InitApi == Init /\ test_mode = FALSE

\* every kind of request, on a short history
NextApi ==
  \/ \E b \in Bodies : SuggestRejected(b)
  \/ \E b \in Bodies : SuggestRaises(b)
  \/ \E b \in Bodies : SuggestOk(b, SuggText, MaxShortHistory)
  \/ \E b \in Bodies : SuggestLogRaises(b, MaxShortHistory)
  \/ get_conversation_history
  \/ clear_conversation_history

SpecApi == InitApi /\ [][NextApi]_vars

\* the requests that leave the server with a well-formed history, up to a
\* history longer than the window of get_conversation_history
NextHistory ==
  \/ \E b \in Bodies : SuggestRejected(b)
  \/ \E b \in Bodies : SuggestRaises(b)
  \/ \E b \in Bodies : SuggestOk(b, SuggText, MaxHistory)
  \/ get_conversation_history
  \/ clear_conversation_history

SpecHistory == InitApi /\ [][NextHistory]_vars

(***************************************************************************)
(* The main loop running without end on a page whose last entry is a new   *)
(* text, with any number of large images around it, when the reads of the  *)
(* page, the generation and the delivery never fail.                       *)
(***************************************************************************)

\* the img[src] elements of the page: the avatar and up to three photos
LivePages ==
  {<<Avatar>>, <<Avatar, PhotoA>>, <<Avatar, PhotoA, PhotoC>>,
   <<Avatar, PhotoA, PhotoC, PhotoD>>}

InitLive ==
  /\ test_mode \in BOOLEAN
  /\ last_message_text = None
  /\ processed_messages = {}
  /\ own_sent_messages = {}
  /\ check_count = 0
  /\ pc = "poll"
  /\ path = "none"
  /\ msg_text = <<>>
  /\ message_id = <<>>
  /\ full_response = <<>>
  /\ generated = "none"
  /\ segments = <<>>
  /\ sent_n = 0
  /\ decision = "none"
  /\ outcome = "none"
  /\ messages = <<Entry(TextHi, <<>>, "user")>>
  /\ all_images \in LivePages
  /\ ever_processed = {}
  /\ delivered = {}
  /\ guarded = {}
  /\ stream = NoStream
  /\ ApiIdle
  /\ ServerIdle
  /\ ReplierIdle

\* check_count counts on without bound and only numbers the log lines: past
\* MaxChecks the model starts the count again
CountWraps ==
  /\ pc = "poll"
  /\ check_count = MaxChecks
  /\ check_count' = 0
  /\ UNCHANGED <<test_mode, last_message_text, processed_messages,
                 own_sent_messages, pc, localVars, logVars, pageVars, histVars,
                 stream, apiVars, srvVars, scrVars>>

NextLive ==
  \/ CountWraps
  \/ PollImage
  \/ PollSkip
  \/ PollOwn
  \/ PollAccept
  \/ \E r \in ReplyTexts : StreamCompletes(r)
  \/ ScanDownloadFails
  \/ ScanDownloadOk
  \/ \E r \in ReplyTexts : ScanVisionOk(r)
  \/ SendBegin
  \/ SendSegment
  \/ RecordReply
  \/ RecordScan
  \/ Sleep

\* while True: the loop never stops of itself
SpecLive == InitLive /\ [][NextLive]_vars /\ WF_vars(NextLive)

(***************************************************************************)
(* app.py under the threaded development server: each thread handles one   *)
(* request at a time, and the threads interleave between the statements of *)
(* a handler that read or write conversation_history or call the Graph     *)
(* API.                                                                    *)
(***************************************************************************)

\* MESSENGER_APP_SECRET as configured, and a key the sender of a forged
\* request may use
Secret == "app-secret"

WrongSecret == "guess"

Clients ==
  {NoClient, [configured |-> TRUE, app_secret |-> ""],
   [configured |-> TRUE, app_secret |-> Secret]}

\* the events the webhook is posted: a page event with a text message, a
\* page event without a message, and a body that is no JSON
TextEvent == [kind |-> "text", text |-> MsgHi]

OtherEvent == [kind |-> "other", text |-> <<>>]

NoJsonEvent == [kind |-> "nojson", text |-> <<>>]

Events == {TextEvent, OtherEvent, NoJsonEvent}

\* hmac.new(key, payload, hashlib.sha256).hexdigest(): equal digests come
\* from equal keys and payloads
Hmac(key, payload) == [key |-> key, payload |-> payload]

\* the header X-Hub-Signature-256: absent (''), or a digest with or
\* without the prefix "sha256="
NoSignature == [prefix |-> "", digest |-> Hmac("", [kind |-> "none", text |-> <<>>])]

Signature(pre, key, payload) == [prefix |-> pre, digest |-> Hmac(key, payload)]

Signatures(e) ==
  {NoSignature, Signature("sha256=", Secret, e), Signature("", Secret, e),
   Signature("sha256=", WrongSecret, e),
   Signature("sha256=", Secret, OtherEvent)}

\* MessengerClient.verify_webhook_signature: the prefix is cut off and the
\* rest is compared with the digest of the payload under app_secret
verify_webhook_signature(payload, signature) ==
  signature.digest = Hmac(messenger_client.app_secret, payload)

\* if signature and messenger_client.app_secret: if not verify...: 403
SignatureRefused(e, sig) ==
  /\ sig # NoSignature
  /\ messenger_client.app_secret # ""
  /\ ~verify_webhook_signature(e, sig)

\* the apology of process_messenger_message
Apology == <<25265, 27465>>

\* the stages of a handler between taking the request and answering it
Generating == {"call", "append_user", "append_assistant"}

Processing == {"typing"} \cup Generating \cup {"returned", "failed"}

Free(t) == handlers[t].at \in {"idle", "done"}

\* the entries and calls the running handlers may still add
PendingEntries ==
  2 * Cardinality({t \in Threads : handlers[t].at \in Generating \cup {"typing"}})

PendingCalls ==
  2 * Cardinality({t \in Threads :
                     handlers[t].kind = "hook" /\ handlers[t].at \in Processing})

Answered(t, k, st) ==
  handlers' = [handlers EXCEPT ![t] =
                 [@ EXCEPT !.kind = k, !.at = "done", !.status = st]]

\* conversation_suggest up to the call of generate_suggestion
SuggestArrives(t, b) ==
  /\ Free(t)
  /\ Len(conversation_history) + PendingEntries + 2 <= MaxShortHistory
  /\ IF BodyRejected(b)
       THEN \E st \in (IF b.json THEN {400} ELSE {400, 500}) :
              handlers' = [handlers EXCEPT ![t] =
                             [NoHandler EXCEPT !.kind = "suggest",
                                               !.at = "done", !.status = st]]
       ELSE handlers' = [handlers EXCEPT ![t] =
                           [NoHandler EXCEPT !.kind = "suggest", !.at = "call",
                                             !.message = MessageOf(b)]]
  /\ UNCHANGED <<conversation_history, request, response, messenger_client,
                 outbox, scrVars, botVars, pc, localVars, logVars, pageVars,
                 histVars, stream>>

\* generate_suggestion: the history is read, the service is called and its
\* answer parsed; the service answers a suggestion or null, or the call or
\* json.loads raises
GenerateCalls(t) ==
  /\ handlers[t].at = "call"
  /\ \/ \E sg \in {SuggText, None} :
          handlers' = [handlers EXCEPT ![t] =
                         [@ EXCEPT !.at = "append_user", !.suggestion = sg]]
     \/ handlers' = [handlers EXCEPT ![t] = [@ EXCEPT !.at = "failed"]]
  /\ UNCHANGED <<conversation_history, request, response, messenger_client,
                 outbox, scrVars, botVars, pc, localVars, logVars, pageVars,
                 histVars, stream>>

\* conversation_history.append({"role": "user", ...})
GenerateAppendsUser(t) ==
  /\ handlers[t].at = "append_user"
  /\ conversation_history' =
       Append(conversation_history, UserEntry(handlers[t].message))
  /\ handlers' = [handlers EXCEPT ![t] = [@ EXCEPT !.at = "append_assistant"]]
  /\ UNCHANGED <<request, response, messenger_client, outbox, scrVars, botVars,
                 pc, localVars, logVars, pageVars, histVars, stream>>

\* conversation_history.append({"role": "assistant", ...}), then the log
\* line, which raises on a suggestion that is null, and the return
GenerateAppendsAssistant(t) ==
  /\ handlers[t].at = "append_assistant"
  /\ conversation_history' =
       Append(conversation_history, AssistantEntry(handlers[t].suggestion))
  /\ handlers' = [handlers EXCEPT ![t] =
                    [@ EXCEPT !.at = IF handlers[t].suggestion = None
                                       THEN "failed" ELSE "returned"]]
  /\ UNCHANGED <<request, response, messenger_client, outbox, scrVars, botVars,
                 pc, localVars, logVars, pageVars, histVars, stream>>

\* conversation_suggest after generate_suggestion: 200, or 500 from except
SuggestResponds(t) ==
  /\ handlers[t].kind = "suggest"
  /\ handlers[t].at \in {"returned", "failed"}
  /\ Answered(t, "suggest", IF handlers[t].at = "returned" THEN 200 ELSE 500)
  /\ UNCHANGED <<conversation_history, request, response, messenger_client,
                 outbox, scrVars, botVars, pc, localVars, logVars, pageVars,
                 histVars, stream>>

\* clear_conversation_history: the global is bound to a new empty list
ClearHandled(t) ==
  /\ Free(t)
  /\ conversation_history' = <<>>
  /\ handlers' = [handlers EXCEPT ![t] =
                    [NoHandler EXCEPT !.kind = "clear", !.at = "done",
                                      !.status = 200]]
  /\ UNCHANGED <<request, response, messenger_client, outbox, scrVars, botVars,
                 pc, localVars, logVars, pageVars, histVars, stream>>

\* webhook_receive up to the call of process_messenger_message.
\* request.get_json() on a body that is no JSON returns None or raises
\* (500), as in conversation_suggest.
WebhookArrives(t, e, sig) ==
  /\ Free(t)
  /\ Len(conversation_history) + PendingEntries + 2 <= MaxShortHistory
  /\ Len(outbox) + PendingCalls + 2 <= MaxOutbox
  /\ \E st \in
         (IF ~messenger_client.configured THEN {500}
          ELSE (IF e.kind = "nojson" THEN {500} ELSE {})
                 \cup (IF SignatureRefused(e, sig) THEN {403}
                       ELSE IF e.kind = "text" THEN {0} ELSE {200})) :
       handlers' = [handlers EXCEPT ![t] =
                      [NoHandler EXCEPT
                         !.kind = "hook",
                         !.at = IF st = 0 THEN "typing" ELSE "done",
                         !.message = e.text,
                         !.signed = verify_webhook_signature(e, sig),
                         !.status = st]]
  /\ UNCHANGED <<conversation_history, request, response, messenger_client,
                 outbox, scrVars, botVars, pc, localVars, logVars, pageVars,
                 histVars, stream>>

\* process_messenger_message: send_typing_indicator, which never raises
ProcessTyping(t) ==
  /\ handlers[t].at = "typing"
  /\ outbox' = Append(outbox, [call |-> "typing_on", text |-> <<>>])
  /\ handlers' = [handlers EXCEPT ![t] = [@ EXCEPT !.at = "call"]]
  /\ UNCHANGED <<conversation_history, request, response, messenger_client,
                 scrVars, botVars, pc, localVars, logVars, pageVars, histVars,
                 stream>>

\* process_messenger_message: send_text_message with the suggestion, or,
\* when generate_suggestion raised, with the apology
ProcessSends(t) ==
  /\ handlers[t].kind = "hook"
  /\ handlers[t].at \in {"returned", "failed"}
  /\ outbox' =
       Append(outbox,
              [call |-> "message",
               text |-> IF handlers[t].at = "returned"
                          THEN handlers[t].suggestion ELSE Apology])
  /\ handlers' = [handlers EXCEPT ![t] = [@ EXCEPT !.at = "respond"]]
  /\ UNCHANGED <<conversation_history, request, response, messenger_client,
                 scrVars, botVars, pc, localVars, logVars, pageVars, histVars,
                 stream>>

\* webhook_receive after asyncio.run has returned: 200
WebhookResponds(t) ==
  /\ handlers[t].at = "respond"
  /\ Answered(t, "hook", 200)
  /\ UNCHANGED <<conversation_history, request, response, messenger_client,
                 outbox, scrVars, botVars, pc, localVars, logVars, pageVars,
                 histVars, stream>>

InitServer ==
  /\ test_mode = FALSE
  /\ last_message_text = None
  /\ processed_messages = {}
  /\ own_sent_messages = {}
  /\ check_count = 0
  /\ pc = "poll"
  /\ path = "none"
  /\ msg_text = <<>>
  /\ message_id = <<>>
  /\ full_response = <<>>
  /\ generated = "none"
  /\ segments = <<>>
  /\ sent_n = 0
  /\ decision = "none"
  /\ outcome = "none"
  /\ messages = <<>>
  /\ all_images = <<Avatar>>
  /\ ever_processed = {}
  /\ delivered = {}
  /\ guarded = {}
  /\ stream = NoStream
  /\ ApiIdle
  /\ ReplierIdle
  /\ messenger_client \in Clients
  /\ handlers = [t \in Threads |-> NoHandler]
  /\ outbox = <<>>

\* concurrent requests for suggestions and for clearing the history
NextConcurrent ==
  \/ \E t \in Threads, b \in Bodies : SuggestArrives(t, b)
  \/ \E t \in Threads : GenerateCalls(t)
  \/ \E t \in Threads : GenerateAppendsUser(t)
  \/ \E t \in Threads : GenerateAppendsAssistant(t)
  \/ \E t \in Threads : SuggestResponds(t)
  \/ \E t \in Threads : ClearHandled(t)

SpecConcurrent == InitServer /\ [][NextConcurrent]_vars

\* the events posted to the webhook
NextWebhook ==
  \/ \E t \in Threads, e \in Events :
       \E sig \in Signatures(e) : WebhookArrives(t, e, sig)
  \/ \E t \in Threads : ProcessTyping(t)
  \/ \E t \in Threads : GenerateCalls(t)
  \/ \E t \in Threads : GenerateAppendsUser(t)
  \/ \E t \in Threads : GenerateAppendsAssistant(t)
  \/ \E t \in Threads : ProcessSends(t)
  \/ \E t \in Threads : WebhookResponds(t)

SpecWebhook == InitServer /\ [][NextWebhook]_vars

(***************************************************************************)
(* MessengerAutoReplier (messenger_scraper.py): start_monitoring polls the *)
(* last row of the conversation every two seconds while the minute of the  *)
(* clock advances.                                                         *)
(***************************************************************************)

\* message_text[:50]
ScraperIdLen == 50

\* the minutes and the rows that are followed
MaxMinutes == 2

MaxRows == 3

\* a row: its text and whether it lies left of x = 500
Row(t, l) == [text |-> t, left |-> l]

\* " hi " with the spaces inner_text may carry
TextHiSpaced == <<32>> \o TextHi \o <<32>>

ReplierTexts == {<<>>, TextHiSpaced, TextLong}

\* f"{message_text[:50]}_{int(time.time() / 60)}"
ScraperId(t) == <<Prefix(t, ScraperIdLen), clock>>

NoMessage == [text |-> <<>>, id |-> <<>>]

\* _get_latest_message
_get_latest_message ==
  IF rows = <<>> THEN NoMessage
  ELSE LET last_message == rows[Len(rows)]
           message_text == Strip(last_message.text)
       IN  IF ScraperId(message_text) \in replier_processed THEN NoMessage
           ELSE IF last_message.left
                  THEN [text |-> message_text, id |-> ScraperId(message_text)]
                  ELSE NoMessage

\* the minute of time.time() changes
Tick ==
  /\ clock < MaxMinutes
  /\ clock' = clock + 1
  /\ UNCHANGED <<rows, replier_processed, answered, srvVars, apiVars, botVars,
                 pc, localVars, logVars, pageVars, histVars, stream>>

\* the other side posts a message
UserPosts(t) ==
  /\ Len(rows) < MaxRows
  /\ rows' = Append(rows, Row(t, TRUE))
  /\ answered' = 0
  /\ UNCHANGED <<replier_processed, clock, srvVars, apiVars, botVars, pc,
                 localVars, logVars, pageVars, histVars, stream>>

\* an iteration that finds no message to answer: if message and message_id
ReplierIdles ==
  /\ _get_latest_message.text = <<>>
  /\ UNCHANGED vars

\* an iteration whose _send_reply finds no input box or raises
ReplierSendFails ==
  /\ _get_latest_message.text # <<>>
  /\ UNCHANGED vars

\* an iteration that answers: _get_ai_reply gives the suggestion or the
\* apology, _send_reply types it and presses Enter, and the id is marked.
\* The page then shows the reply as a new row on the right, or does not.
ReplierReplies(r) ==
  /\ _get_latest_message.text # <<>>
  /\ replier_processed' = replier_processed \cup {_get_latest_message.id}
  /\ \/ /\ Len(rows) < MaxRows
        /\ rows' = Append(rows, Row(r, FALSE))
        /\ answered' = 0
     \/ /\ rows' = rows
        /\ answered' = answered + 1
  /\ UNCHANGED <<clock, srvVars, apiVars, botVars, pc, localVars, logVars,
                 pageVars, histVars, stream>>

NextScraper ==
  \/ Tick
  \/ \E t \in ReplierTexts : UserPosts(t)
  \/ ReplierIdles
  \/ ReplierSendFails
  \/ \E r \in {ReplyEn, Apology} : ReplierReplies(r)

SpecScraper == Init /\ [][NextScraper]_vars

(***************************************************************************)
(* Properties                                                              *)
(***************************************************************************)

\* a step that runs the checks of one iteration on the page
PollStep == pc = "poll" /\ pc' # "poll"

C2_NeverAcceptsEverProcessed ==
  [][(PollStep /\ decision' \in {"accepted", "new_image"})
       => message_id' \notin ever_processed]_vars

\* C2: while a key is in processed_messages, no poll accepts an entry with
\* that key, neither a text entry nor an image entry nor an image of the
\* page-wide scan.
C2_NoAcceptWhileProcessed ==
  [][(PollStep /\ decision' \in {"accepted", "new_image"})
       => message_id' \notin processed_messages]_vars

\* reached: an entry whose key is in processed_messages is skipped for that
\* reason alone
C2_DuplicateSkipped ==
  /\ pc = "sleep"
  /\ decision = "duplicate"
  /\ messages # <<>>
  /\ EntryKey(messages[1]) \in processed_messages
  /\ EntryKey(messages[1]) # last_message_text

\* the three conditions on the last entry, on its text as the page gives it
ThreeConditions ==
  /\ EntryKey(messages[1]) \notin processed_messages
  /\ EntryKey(messages[1]) # last_message_text
  /\ test_mode \/ messages[1].text \notin own_sent_messages

\* the conditions under which the code reaches its "new message" branch
AcceptCondition ==
  /\ LatestImageIndex = 0
  /\ messages # <<>>
  /\ LET e == messages[1]
         t == Strip(e.text)
     IN /\ t # <<>> \/ e.imgs # <<>>
        /\ Len(t) <= MaxTextLen
        /\ ~IsSystemText(t)
        /\ EntryKey(e) \notin processed_messages
        /\ EntryKey(e) # last_message_text
        /\ test_mode \/ t \notin own_sent_messages

\* C3 (as stated): in a poll that reads the page, the last entry is accepted
\* if and only if its key is not in processed_messages, differs from
\* last_message_text, and test_mode is on or its text is not in
\* own_sent_messages.
C3_AcceptedIffThree ==
  [][(PollStep /\ outcome' # "error" /\ messages # <<>>)
       => ((decision' = "accepted") <=> ThreeConditions)]_vars

\* C3: in a poll that reads the page without an error, the last entry is
\* accepted if and only if no new large image is on the page, the entry has a
\* text or an image, its stripped text has at most 500 characters and holds
\* no system keyword, and the three conditions hold of its key and its
\* stripped text.
C3_AcceptedIffAll ==
  [][(PollStep /\ outcome' # "error")
       => ((decision' = "accepted") <=> AcceptCondition)]_vars

\* reached: in test mode an entry that shows the bot's own text is accepted
C3_OwnTextAcceptedInTestMode ==
  /\ pc = "generate"
  /\ decision = "accepted"
  /\ test_mode
  /\ msg_text \in own_sent_messages

\* C4: whenever a poll starts, processed_messages holds at most ProcessedCap
\* keys and own_sent_messages at most OwnCap strings.
C4_BoundedAtPoll ==
  pc = "poll" =>
    /\ Cardinality(processed_messages) <= ProcessedCap
    /\ Cardinality(own_sent_messages) <= OwnCap

\* C5 (as stated): at the end of an iteration that delivered and recorded a
\* reply, own_sent_messages holds the reply and every segment sent,
\* processed_messages holds the key, and last_message_text is the key.
C5_AllRecorded ==
  (pc = "sleep" /\ outcome = "recorded") =>
    /\ {full_response} \cup {segments[i] : i \in 1..Len(segments)}
         \subseteq own_sent_messages
    /\ message_id \in processed_messages
    /\ last_message_text = message_id

\* C5: at the end of an iteration that delivered and recorded a reply,
\* last_message_text is the key; processed_messages holds the key unless it
\* was cleared in this iteration; own_sent_messages holds the reply and every
\* segment without its surrounding blanks unless it was cut in this iteration.
C5_RecordedUnlessLimited ==
  (pc = "sleep" /\ outcome = "recorded") =>
    /\ last_message_text = message_id
    /\ message_id \in processed_messages \/ processed_messages = {}
    /\ \/ SentStrings \subseteq own_sent_messages
       \/ Cardinality(own_sent_messages) = OwnKeep

\* reached: a reply of several segments is delivered and recorded with no
\* limit applied
C5_RecordedInFull ==
  /\ pc = "sleep"
  /\ outcome = "recorded"
  /\ path = "text"
  /\ Len(segments) > 1
  /\ message_id \in processed_messages
  /\ SentStrings \subseteq own_sent_messages

\* C6: at the end of an iteration, if the key of the accepted entry or image
\* is in processed_messages, every segment submitted in the iteration is in
\* own_sent_messages.
C6_KeyImpliesOwnRecorded ==
  (pc = "sleep" /\ decision \in {"accepted", "new_image"}
     /\ message_id \in processed_messages)
    => \A i \in 1..sent_n : Strip(segments[i]) \in own_sent_messages

\* C7: when generation fails for an accepted text entry, its key is in
\* processed_messages at the end of the iteration.
C7_FailedGenerationRecorded ==
  (pc = "sleep" /\ path = "text" /\ generated = "no")
    => message_id \in processed_messages

\* C8: when delivery fails for an accepted entry (no input box, or an error
\* between two segments), its key is in processed_messages at the end of the
\* iteration.
C8_FailedDeliveryRecorded ==
  (pc = "sleep" /\ decision = "accepted" /\ generated = "yes"
     /\ outcome \in {"not_sent", "error"})
    => message_id \in processed_messages

\* C9 (as stated): when generation fails, nothing is submitted in that
\* iteration.
C9_NothingSentOnFailure ==
  (pc = "sleep" /\ generated = "no") => sent_n = 0

\* C9: when generation fails for a text entry or for an image of the
\* page-wide scan, nothing is submitted in that iteration; when the download
\* or the analysis fails for an image in the last entry, what is submitted
\* are segments of the fixed apology in the language of the entry's text.
C9_NothingOrApology ==
  (pc = "sleep" /\ generated = "no") =>
    IF path = "image"
    THEN /\ full_response \in {SorryDownload(msg_text), SorryVision(msg_text)}
         /\ segments \in {<<>>, Segments(full_response)}
         /\ sent_n <= Len(segments)
    ELSE /\ sent_n = 0
         /\ segments = <<>>
         /\ full_response = <<>>

\* reached: the image of the last entry could not be handled and every
\* segment of the apology was submitted
C9_ApologySent ==
  /\ pc = "sleep"
  /\ generated = "no"
  /\ path = "image"
  /\ sent_n > 0
  /\ sent_n = Len(segments)

\* C10: in MessengerAutoReply, an entry for which a reply is generated was
\* written by the other side, never by the bot itself.
C10_V2NoReplyToOwnReply ==
  pc = "v2_generate" => messages[1].by = "user"

\* the joiner of the language detected for the reply
SegmentJoiner ==
  IF detect_language(full_response) = "chinese" THEN <<>> ELSE <<32>>

\* C11 (as stated): the segments of a reply, joined with the joiner of its
\* language, give the reply back exactly.
C11_RoundTripExact ==
  pc = "sending" => JoinWith(segments, SegmentJoiner) = full_response

\* C11: the segments of a reply detected as Chinese, concatenated, give the
\* reply back exactly; the segments of a reply detected as English, joined
\* with one space, give the words of the reply joined with one space each.
C11_RoundTripUpToBlanks ==
  pc = "sending" =>
    JoinWith(segments, SegmentJoiner) =
      IF detect_language(full_response) = "chinese"
      THEN full_response
      ELSE SpaceJoin(Split(full_response))

\* reached: an English reply in two segments that joins back exactly
C11_EnglishJoinsBack ==
  /\ pc = "sending"
  /\ detect_language(full_response) = "english"
  /\ Len(segments) = 2
  /\ JoinWith(segments, <<32>>) = full_response

\* ni hao! / zui jin zen me yang / ?
ScenarioThree ==
  << <<20320, 22909, 65281>>, <<26368, 36817, 24590, 20040, 26679>>,
     <<65311>> >>

\* ni hao! / zui jin zen me yang?
ScenarioTwo ==
  << <<20320, 22909, 65281>>,
     <<26368, 36817, 24590, 20040, 26679, 65311>> >>

\* the reply of the scenario has been delivered and recorded
ScenarioRecorded ==
  full_response = ReplyScenario /\ pc = "sleep" /\ outcome = "recorded"

\* C13 (as stated): the reply of the scenario is cut into the two segments
\* at its punctuation, two entries are submitted, and own_sent_messages
\* holds the reply and both segments.
C13_ScenarioTwoSegments ==
  /\ (full_response = ReplyScenario /\ pc = "sending")
       => segments = ScenarioTwo
  /\ ScenarioRecorded =>
       /\ sent_n = 2
       /\ {ReplyScenario, ScenarioTwo[1], ScenarioTwo[2]}
            \subseteq own_sent_messages

\* C13: the reply of the scenario is cut into three segments (the second
\* one is cut at five characters, before its question mark), three entries
\* are submitted, and own_sent_messages holds the reply and the three
\* segments.
C13_ScenarioThreeSegments ==
  /\ (full_response = ReplyScenario /\ pc = "sending")
       => segments = ScenarioThree
  /\ ScenarioRecorded =>
       /\ sent_n = 3
       /\ messages = <<Entry(ScenarioThree[3], <<>>, "bot")>>
       /\ own_sent_messages =
            {ReplyScenario, ScenarioThree[1], ScenarioThree[2],
             ScenarioThree[3]}

\* reached: the reply of the scenario is recorded with its segments
C13_ScenarioDelivered ==
  /\ ScenarioRecorded
  /\ Cardinality(own_sent_messages) = 4
  /\ message_id \in processed_messages

\* C15: when the loop has stopped after a segment of a reply was submitted,
\* every segment of that reply was submitted and the recording step has run.
C15_StopAfterRecording ==
  (pc = "stopped" /\ sent_n > 0)
    => (sent_n = Len(segments) /\ outcome = "recorded")

LastText == Strip(messages[1].text)

\* C12: at the end of a cycle that looked at the last entry and submitted
\* nothing, looking at the same entry again does not accept it.
C12_SecondLookIgnores ==
  (pc = "sleep" /\ messages # <<>> /\ sent_n = 0 /\ LatestImageIndex = 0
     /\ decision \notin {"none", "new_image", "no_messages"})
    => Classify(messages[1]) # "accepted"

\* C14: a poll whose last entry has a text of more than 500 characters, or a
\* text that holds a system keyword in any case, does not accept the entry;
\* when the cycle looks at the entry it ends at once, with the state of the
\* bot and the page as they were.
C14_LongOrSystemIgnored ==
  [][(PollStep /\ messages # <<>>
        /\ \/ Len(LastText) > MaxTextLen
           \/ \E kw \in SkipKeywords : Contains(Lower(LastText), kw))
       => /\ decision' # "accepted"
          /\ decision' \in {"too_long", "system"}
               => /\ pc' = "sleep"
                  /\ generated' = "none"
                  /\ sent_n' = 0
                  /\ UNCHANGED <<last_message_text, processed_messages,
                                 own_sent_messages, pageVars>>]_vars

\* reached: a system entry has been skipped
C14_SystemSkipped ==
  /\ pc = "sleep"
  /\ decision = "system"
  /\ \A kw \in SkipKeywords : ~Contains(msg_text, kw)
  /\ generated = "none"
  /\ sent_n = 0

\* C16: a step that meets an error ends the iteration, and the step after
\* an error starts the next poll with the state of the bot and the page as
\* the error left them.
C16_ErrorEndsIterationOnly ==
  [][/\ outcome' = "error" => pc' = "sleep"
     /\ outcome = "error"
          => /\ pc' = "poll"
             /\ botVars' = botVars
             /\ pageVars' = pageVars]_vars

\* reached: an error between two segments of a reply has ended an iteration
C16_ErrorWhileSending ==
  /\ pc = "sleep"
  /\ outcome = "error"
  /\ path = "text"
  /\ sent_n > 0
  /\ sent_n < Len(segments)

\* the first iteration has failed to read the page
FirstReadFailed ==
  check_count = 1 /\ outcome = "error" /\ decision = "none"

\* C17 (as stated): when the first iteration fails to read the page, the
\* loop stops.
C17_FirstReadErrorStops ==
  FirstReadFailed => pc = "stopped"

\* C17: when the first iteration fails to read the page, the iteration ends
\* like any other that meets an error, and the next step returns to the
\* poll with a further iteration ahead.
C17_FirstReadErrorRetried ==
  [][/\ FirstReadFailed' => pc' = "sleep"
     /\ FirstReadFailed
          => /\ pc' = "poll"
             /\ check_count' < MaxChecks
             /\ botVars' = botVars]_vars

\* reached: the first iteration has failed to read the page
C17_FirstReadErrorCaught ==
  /\ FirstReadFailed
  /\ pc = "sleep"
  /\ generated = "none"

\* the images of the page that the scan would take, but for their key
Candidates ==
  {j \in 1..Len(all_images) :
     /\ IsLarge(all_images[j])
     /\ all_images[j].src # <<>>
     /\ \A m \in AvatarMarks : ~Contains(all_images[j].src, m)}

\* C20: the images of the page have different keys, and the key that the
\* scan marks as processed is the key of one image of the page only.
C20_OneImagePerKey ==
  /\ \A i, j \in Candidates :
       all_images[i].src # all_images[j].src
         => ImgKey(all_images[i].src) # ImgKey(all_images[j].src)
  /\ pc = "scan_download"
       => Cardinality({j \in Candidates :
                         ImgKey(all_images[j].src) = message_id}) <= 1

\* the last entry holds an img element
HasImage == messages # <<>> /\ messages[1].imgs # <<>>

\* a step that reads the page and runs the checks without an error
PollReads == PollStep /\ outcome' # "error"

\* C21 (as stated): a last entry that holds an image and whose key is not in
\* processed_messages is accepted on the image branch, whatever its text.
C21_ImageAlwaysAccepted ==
  [][(PollReads /\ HasImage
        /\ EntryKey(messages[1]) \notin processed_messages)
       => (decision' = "accepted" /\ path' = "image")]_vars

\* the checks that an entry with an image passes before it is accepted
ImagePasses ==
  /\ HasImage
  /\ LatestImageIndex = 0
  /\ Len(LastText) <= MaxTextLen
  /\ \A kw \in SkipKeywords : ~Contains(Lower(LastText), kw)
  /\ EntryKey(messages[1]) \notin processed_messages
  /\ EntryKey(messages[1]) # last_message_text
  /\ test_mode \/ LastText \notin own_sent_messages

\* C21: a last entry that holds an image is accepted on the image branch
\* when the page-wide scan finds no new image, its text has at most 500
\* characters and no system keyword, its key is neither in
\* processed_messages nor equal to last_message_text and, outside test
\* mode, its text is not in own_sent_messages; an accepted entry goes to
\* the image branch if it holds an image and to the text branch if not.
C21_ImageAcceptedAfterChecks ==
  [][(PollReads /\ messages # <<>>)
       => /\ ImagePasses => (decision' = "accepted" /\ path' = "image")
          /\ decision' = "accepted"
               => /\ HasImage => (path' = "image" /\ pc' = "image_download")
                  /\ ~HasImage => (path' = "text" /\ pc' = "generate")]_vars

\* reached: an image with a caption was accepted, the vision call gave a
\* reply and its first segment has been submitted
C21_CaptionedImageAnswered ==
  /\ pc = "sending"
  /\ path = "image"
  /\ msg_text = TextHi
  /\ generated = "yes"
  /\ sent_n > 0

\* the decisions that ignore the last entry without recording anything
Ignored == {"empty", "too_long", "system", "duplicate", "unchanged"}

\* C24: a poll that ignores the last entry as empty, too long, system,
\* duplicate or unchanged ends the iteration, and neither it nor the rest of
\* the iteration changes last_message_text, processed_messages or
\* own_sent_messages.
C24_IgnoredLeavesState ==
  [][((PollStep /\ decision' \in Ignored) \/ decision \in Ignored)
       => /\ UNCHANGED <<last_message_text, processed_messages,
                         own_sent_messages>>
          /\ PollStep => pc' = "sleep"]_vars

\* reached: an entry with an image was ignored as already processed
C24_DuplicateIgnored ==
  /\ pc = "sleep"
  /\ decision = "duplicate"
  /\ HasImage
  /\ processed_messages # {}

C26_FreshStringsKept ==
  (pc = "sleep" /\ outcome = "recorded"
     /\ Cardinality(OwnStrings(full_response, segments)) <= OwnKeep)
    => OwnStrings(full_response, segments) \subseteq own_sent_messages

\* C27: each step of the delivery submits the next segment in the order of
\* the segmentation, as one entry of the feed, and changes nothing else of
\* the delivery; a reply is recorded only when every segment has been
\* submitted, with the segments as they were submitted; when the input box
\* is missing nothing is submitted and the delivery fails.
C27_SegmentsInOrderOnce ==
  [][/\ (pc = "sending" /\ sent_n' # sent_n)
          => /\ sent_n' = sent_n + 1
             /\ sent_n' <= Len(segments)
             /\ messages' = <<Entry(segments[sent_n'], <<>>, "bot")>>
             /\ segments' = segments
             /\ segments = Segments(full_response)
     /\ (outcome' = "recorded" /\ outcome # "recorded")
          => /\ sent_n = Len(segments)
             /\ segments' = segments
             /\ \A i \in 1..Len(segments) : Strip(segments[i]) \in delivered'
     /\ (pc = "send_begin" /\ outcome' = "not_sent")
          => /\ messages' = messages
             /\ sent_n' = 0
             /\ UNCHANGED <<last_message_text, delivered>>]_vars

\* reached: the second of three segments has just been submitted
C27_SecondOfThreeSubmitted ==
  /\ pc = "sending"
  /\ Len(segments) = 3
  /\ sent_n = 2
  /\ messages = <<Entry(segments[2], <<>>, "bot")>>
  /\ segments[1] # segments[2]

\* one of the five marks of the Chinese rule
IsMark(c) == c \in {65292, 12290, 65281, 65311, 12289}

\* the delivery of a reply that the Chinese rule has cut
SendingChinese ==
  /\ pc = "sending"
  /\ CountOf(full_response, IsCJK) > CountOf(full_response, IsLatin)
       \/ CountOf(full_response, IsLatin) = 0

\* C28: the Chinese rule cuts a non-empty text into at least one segment;
\* every segment has between one and five characters, holds a mark only as
\* its last character, and, unless it is the last, ends in a mark or has
\* five characters; the segments concatenated are the text.
C28_ChineseSegmentShape ==
  (SendingChinese /\ full_response # <<>>)
    => /\ segments # <<>>
       /\ \A i \in 1..Len(segments) :
            LET g == segments[i]
            IN /\ Len(g) \in 1..5
               /\ \A k \in 1..(Len(g) - 1) : ~IsMark(g[k])
               /\ i < Len(segments) => (IsMark(g[Len(g)]) \/ Len(g) = 5)
       /\ JoinWith(segments, <<>>) = full_response

\* reached: a segment before the last was cut at five characters and another
\* at a mark
C28_CutAtFiveAndAtMark ==
  /\ SendingChinese
  /\ \E i \in 1..(Len(segments) - 1) :
       Len(segments[i]) = 5 /\ ~IsMark(segments[i][5])
  /\ \E i \in 1..(Len(segments) - 1) :
       Len(segments[i]) < 5 /\ IsMark(segments[i][Len(segments[i])])

\* the delivery of a reply that the English rule has cut
SendingEnglish == pc = "sending" /\ ~SendingChinese

\* the word w ends in one of the characters of cs
EndsIn(w, cs) == Len(w) > 0 /\ w[Len(w)] \in cs

\* C29 (as stated): every segment of the English rule holds one to three
\* words and ends after every word that ends in '.', '!' or '?'.
C29_CutAfterTerminalMark ==
  SendingEnglish
    => \A i \in 1..Len(segments) :
         LET ws == Split(segments[i])
         IN /\ Len(ws) \in 1..3
            /\ \A k \in 1..(Len(ws) - 1) : ~EndsIn(ws[k], {46, 33, 63})

\* C29: every segment of the English rule holds one to three words; a
\* segment ends after every word that ends in '.' or ',', and a segment
\* before the last holds three words or ends in '.' or ','.
C29_CutAfterPeriodOrComma ==
  SendingEnglish
    => \A i \in 1..Len(segments) :
         LET ws == Split(segments[i])
         IN /\ Len(ws) \in 1..3
            /\ \A k \in 1..(Len(ws) - 1) : ~EndsIn(ws[k], {46, 44})
            /\ i < Len(segments)
                 => (Len(ws) = 3 \/ EndsIn(ws[Len(ws)], {46, 44}))

\* reached: a word that ends in '!' is followed by another word in its
\* segment, and a segment of one word ends in ','
C29_ExclamationInsideSegment ==
  /\ SendingEnglish
  /\ \E i \in 1..Len(segments) :
       LET ws == Split(segments[i])
       IN Len(ws) > 1 /\ EndsIn(ws[1], {33})
  /\ \E i \in 1..Len(segments) :
       LET ws == Split(segments[i])
       IN Len(ws) = 1 /\ EndsIn(ws[1], {44})

\* the number of characters of t in the CJK range, and of Latin letters
CjkCount(t) == Cardinality({i \in 1..Len(t) : t[i] \in 19968..40959})

LatinCount(t) ==
  Cardinality({i \in 1..Len(t) : t[i] \in (65..90) \cup (97..122)})

\* C30: detect_language gives 'chinese' when the CJK characters outnumber
\* the Latin letters, otherwise 'english' when there is a Latin letter, and
\* otherwise 'chinese'; the rule that cuts the reply is chosen by it.
C30_LanguageByCounts ==
  LET lang == IF CjkCount(full_response) > LatinCount(full_response)
              THEN "chinese"
              ELSE IF LatinCount(full_response) >= 1 THEN "english"
              ELSE "chinese"
  IN /\ detect_language(full_response) = lang
     /\ pc = "sending"
          => segments = IF lang = "chinese"
                        THEN ChineseSegments(full_response)
                        ELSE EnglishSegments(full_response)

\* reached: a reply with as many CJK characters as Latin letters is cut by
\* the English rule, which drops its leading blank
C30_TieIsEnglish ==
  /\ pc = "sending"
  /\ CjkCount(full_response) = LatinCount(full_response)
  /\ CjkCount(full_response) >= 1
  /\ segments = EnglishSegments(full_response)
  /\ segments # ChineseSegments(full_response)

\* a step in which the server handles a request
Handles(m, r) ==
  /\ apiVars' # apiVars
  /\ request'.method = m
  /\ request'.route = r

\* C22: a POST /api/conversation-suggest whose body is missing or whose
\* message is empty is answered with 400, one whose generation raises with
\* 500, and a request answered with an error leaves conversation_history
\* as it was.
C22_ErrorsLeaveHistory ==
  [][Handles("POST", "conversation-suggest")
       => /\ (~request'.body.json \/ MessageOf(request'.body) = <<>>)
               => response'.status = 400
          /\ request'.gen \in {"error", "null"} => response'.status = 500
          /\ response'.status >= 400
               => conversation_history' = conversation_history]_vars

\* C23: DELETE empties the history; a successful POST appends the user
\* entry of the request and then its assistant entry, which after a DELETE
\* are the whole history; GET returns the last 20 entries of the history,
\* or all of them when there are fewer, and changes nothing.
C23_HistoryEndpoints ==
  [][/\ Handles("DELETE", "conversation-history")
          => conversation_history' = <<>>
     /\ (Handles("POST", "conversation-suggest") /\ response'.status = 200)
          => /\ conversation_history' =
                  conversation_history
                    \o <<[role |-> "user", content |-> request'.body.message],
                         [role |-> "assistant",
                          content |-> response'.data[1].content]>>
             /\ (request.method = "DELETE" /\ response.status = 200)
                  => Len(conversation_history') = 2
     /\ Handles("GET", "conversation-history")
          => /\ conversation_history' = conversation_history
             /\ Len(response'.data) <= 20
             /\ \A i \in 1..Len(response'.data) :
                  response'.data[Len(response'.data) + 1 - i] =
                    conversation_history[Len(conversation_history) + 1 - i]
             /\ Len(conversation_history) <= 20
                  => response'.data = conversation_history]_vars

\* reached: GET has answered on a history of 22 entries with its last 20,
\* which are not its first 20
C23_WindowOfTwenty ==
  /\ request.method = "GET"
  /\ Len(conversation_history) = 22
  /\ response.data = SubSeq(conversation_history, 3, 22)
  /\ response.data # SubSeq(conversation_history, 1, 20)

\* C32: last_message_text is None, or a member of processed_messages, or
\* processed_messages is empty.
C32_LastKeyProcessedOrCleared ==
  \/ last_message_text = None
  \/ last_message_text \in processed_messages
  \/ processed_messages = {}

\* reached: the clear has emptied processed_messages and last_message_text
\* still holds the key recorded last; and the state after the bot has
\* recorded its own message
C32_LastKeyAfterClear ==
  /\ pc = "sleep"
  /\ outcome = "recorded"
  /\ processed_messages = {}
  /\ last_message_text = message_id
  /\ Cardinality(ever_processed) > ProcessedCap

\* C33: a reply to a text entry is recorded with last_message_text set to
\* the key of the entry, whether or not processed_messages is then cleared;
\* and a poll that meets a text entry whose key is last_message_text does
\* not accept it, even when processed_messages is empty.
C33_ClearedKeyNotAcceptedAgain ==
  [][/\ (outcome' = "recorded" /\ outcome # "recorded" /\ path = "text")
          => /\ last_message_text' = message_id
             /\ message_id \in processed_messages'
                  \/ processed_messages' = {}
     /\ (PollStep /\ messages # <<>> /\ messages[1].imgs = <<>>
           /\ Strip(messages[1].text) = last_message_text)
          => decision' # "accepted"]_vars

\* reached: the entry whose acceptance cleared processed_messages is the
\* last entry again and is skipped as unchanged
C33_SkippedAfterClear ==
  /\ pc = "sleep"
  /\ decision = "unchanged"
  /\ processed_messages = {}
  /\ msg_text = last_message_text
  /\ msg_text \in ever_processed
  /\ messages[1].by = "user"

\* the images of the page that the scan would take now and whose key is the
\* key of this iteration
RetryOfThisImage ==
  {i \in 1..Len(all_images) :
     IsNewImage(all_images[i]) /\ ImgKey(all_images[i].src) = message_id}

\* an iteration of the page-wide scan has ended without a reply
ScanFailed ==
  pc = "sleep" /\ path = "scan" /\ outcome \in {"no_reply", "not_sent", "error"}

\* C35 (as stated): after an iteration in which the page-wide scan failed on
\* an image, the next poll does not take that image again.
C35_FailedImageNotRetried ==
  ScanFailed => RetryOfThisImage = {}

\* C35: the scan adds the key of the image to processed_messages and sets
\* last_message_text to it before the download starts; after an iteration
\* in which the scan failed, the next poll does not take that image again
\* unless the limit has cleared processed_messages.
C35_FailedImageRetriedOnlyAfterClear ==
  /\ pc \in {"scan_download", "scan_vision"}
       => (message_id \in processed_messages /\ last_message_text = message_id)
  /\ (path = "scan" /\ pc \in {"send_begin", "sending"})
       => (message_id \in processed_messages /\ last_message_text = message_id)
  /\ ScanFailed
       => /\ last_message_text = message_id
          /\ message_id \in processed_messages \/ processed_messages = {}
          /\ processed_messages # {} => RetryOfThisImage = {}

\* reached: the download of a scanned image failed and its key is kept
C35_FailedImageMarked ==
  /\ ScanFailed
  /\ generated = "no"
  /\ message_id \in processed_messages
  /\ \E i \in 1..Len(all_images) : IsLarge(all_images[i])
  /\ RetryOfThisImage = {}

\* the last entry of the feed is the user's text
LastIsUserText == messages = <<Entry(TextHi, <<>>, "user")>>

\* C34: when the new text stays the last entry at every poll, a reply to it
\* is eventually delivered and recorded, whatever images the page shows.
C34_TextEventuallyAnswered ==
  <>(\/ pc = "sleep" /\ path = "text" /\ outcome = "recorded"
          /\ msg_text = TextHi
     \/ pc = "poll" /\ ~LastIsUserText)

\* C37: under any interleaving of the requests that post a message and of
\* those that clear the history, every assistant entry of
\* conversation_history comes right after a user entry.
C37_AssistantFollowsUser ==
  \A i \in 1..Len(conversation_history) :
    conversation_history[i].role = "assistant"
      => i > 1 /\ conversation_history[i - 1].role = "user"

\* C31: the acknowledgement of POST /webhook does not wait for
\* process_messenger_message: while the message is being processed the
\* response can be given.
C31_AcknowledgementNotHeldBack ==
  \A t \in Threads :
    handlers[t].kind = "hook" /\ handlers[t].at \in Processing
      => ENABLED WebhookResponds(t)

\* C38: with an app secret configured, POST /webhook processes an event
\* only when the request carries a signature that verifies against its
\* body.
C38_OnlySignedEventsProcessed ==
  \A t \in Threads :
    /\ messenger_client.app_secret # ""
    /\ handlers[t].kind = "hook"
    /\ handlers[t].at \in Processing \cup {"respond"}
    => handlers[t].signed

\* C36: once a reply has been sent for the last row, no further reply is
\* sent for it while it stays the last row, however much time passes.
C36_AtMostOneReply == answered <= 1

====
